---- MODULE Spec2Model ----
(***************************************************************************)
(* A model of the cloudflare-embeddings-processor build pipeline:          *)
(*   - TextChunker.chunk_text                 (src/generate_embeddings.py) *)
(*   - EmbeddingPipeline._calculate_namespace (src/generate_embeddings.py) *)
(*   - CloudflareEmbedder.generate_embeddings_batch and                    *)
(*     EmbeddingPipeline.process_pipeline     (src/generate_embeddings.py) *)
(*   - PDFExtractor.should_process_file / extract_all (src/extract_pdfs.py)*)
(*                                                                         *)
(* Representation.  A Python str is a sequence of one-character strings.   *)
(* Python's None, where a str is expected, is the one-element sequence     *)
(* PyNone, which is no str because its element is not a character.  A dict *)
(* is a function whose domain is its set of keys.                          *)
(***************************************************************************)
EXTENDS Integers, Sequences, FiniteSets, TLC

VARIABLES
    \* ---- TextChunker.chunk_text called twice on one input (SpecChunk)
    ck_pc,          \* "init", "once", "twice"
    ck_text,        \* the text argument
    ck_size,        \* self.chunk_size
    ck_overlap,     \* self.overlap
    ck_arg0,        \* the caller's metadata dict as it was before the calls
    ck_arg,         \* the caller's metadata dict as it is now
    ck_first,       \* the list returned by the first call
    ck_second,      \* the list returned by the second call
    \* ---- EmbeddingPipeline._calculate_namespace on one metadata (SpecNs)
    ns_pc,          \* "init", "done"
    ns_metadata,    \* the metadata argument
    ns_result,      \* what the call did: [raised, value]
    \* ---- the extracted_texts directory and the vector store
    dir,            \* path of a source PDF -> the *_extracted.json written for it
    store,          \* the index: a set of records [ns, id, values, metadata]
    \* ---- one run of EmbeddingPipeline.process_pipeline
    pl_pc,          \* "idle", "embed", "group", "upsert", "done", "failed", "crashed"
    pl_documents,   \* documents
    pl_chunks,      \* all_chunks
    pl_i,           \* the loop variable i of generate_embeddings_batch
    pl_embeddings,  \* results / text_embeddings
    pl_requests,    \* embedder.request_count
    pl_by_ns,       \* vectors_by_namespace, entries in insertion order
    pl_default,     \* vectors_without_namespace
    pl_g,           \* the call of upsert_vectors in progress (index in the plan)
    pl_off,         \* the loop variable i of upsert_vectors
    pl_created,     \* self.namespaces_created
    pl_stored,      \* total_stored
    pl_summary,     \* the summary returned
    \* ---- history, not program state
    pl_returned,    \* what the embedding service returned for each position
    pl_faults,      \* the number of failures of external calls so far
    pl_runs,        \* the number of runs of process_pipeline started
    pl_prev,        \* the previous run, as it ended
    pl_trace,       \* the external calls and the sleeps of the run, in order
    \* ---- the source tree and the manifest file
    src,            \* source PDF -> [bytes, readable]: content version, open() works
    manifest_disk,  \* the 'files' map of .extraction_manifest.json as last saved
    manifest_ok,    \* whether .extraction_manifest.json can be read and parsed
    \* ---- one run of PDFExtractor.extract_all
    ex_pc,          \* "idle", "loop", "record", "done"
    ex_incremental, \* the argument incremental
    ex_force,       \* the argument force
    ex_manifest,    \* self.manifest['files']
    ex_todo,        \* files_to_process, the files not yet processed
    ex_skipped,     \* skipped_files
    ex_cur,         \* result, the extraction of the file being processed
    ex_successful,  \* successful
    ex_failed,      \* failed
    ex_summary,     \* the summary returned
    \* ---- history, not program state
    ex_runs,        \* the number of runs of extract_all started
    ex_seen,        \* the source tree and the manifest as the run's filter saw them
    ex_done,        \* the files this run has extracted successfully
    ex_answer,      \* the latest call of should_process_file on this extractor
    env_steps,      \* the number of changes made to the source tree
    \* ---- search.py: the router and one request
    rt_mapping,     \* SubjectRouter.subject_mapping
    rt_request,     \* the request: query, subject, school, class
    rt_auto,        \* what route_query returned for the request
    rt_explicit,    \* what find_namespace returned for the request
    sr_search,      \* the latest search of DualInterfaceSearch for the request
    \* ---- one call of PineconeIndexManager.upsert_vectors (SpecUpsert)
    up_pc,          \* "idle", "loop", "returned", "raised"
    up_vectors,     \* the argument vectors
    up_batch_size,  \* the argument batch_size
    up_namespace,   \* the argument namespace
    up_i,           \* the loop variable i
    up_calls        \* history: the calls of index.upsert made, in order

ck_vars == <<ck_pc, ck_text, ck_size, ck_overlap, ck_arg0, ck_arg, ck_first, ck_second>>

ns_vars == <<ns_pc, ns_metadata, ns_result>>

pl_vars == <<dir, store, pl_pc, pl_documents, pl_chunks, pl_i, pl_embeddings,
             pl_requests, pl_by_ns, pl_default, pl_g, pl_off, pl_created, pl_stored,
             pl_summary, pl_returned, pl_faults, pl_runs, pl_prev, pl_trace>>

ex_vars == <<src, manifest_disk, manifest_ok, ex_pc, ex_incremental, ex_force, ex_manifest,
             ex_todo, ex_skipped, ex_cur, ex_successful, ex_failed, ex_summary,
             ex_runs, ex_seen, ex_done, ex_answer, env_steps>>

sr_vars == <<rt_mapping, rt_request, rt_auto, rt_explicit, sr_search>>

up_vars == <<up_pc, up_vectors, up_batch_size, up_namespace, up_i, up_calls>>

vars == <<ck_vars, ns_vars, pl_vars, ex_vars, sr_vars, up_vars>>

\* the variables of the other components
not_ck == <<ns_vars, pl_vars, ex_vars, sr_vars, up_vars>>
not_ns == <<ck_vars, pl_vars, ex_vars, sr_vars, up_vars>>
not_pl == <<ck_vars, ns_vars, ex_vars, sr_vars, up_vars>>
not_sr == <<ck_vars, ns_vars, pl_vars, ex_vars, up_vars>>
not_up == <<ck_vars, ns_vars, pl_vars, ex_vars, sr_vars>>
\* (the extractor writes dir, which is listed with the pipeline's variables)
not_ex == <<ck_vars, ns_vars, sr_vars, up_vars, store, pl_pc, pl_documents, pl_chunks, pl_i,
            pl_embeddings, pl_requests, pl_by_ns, pl_default, pl_g, pl_off,
            pl_created, pl_stored, pl_summary, pl_returned, pl_faults, pl_runs,
            pl_prev, pl_trace>>

----------------------------------------------------------------------------
(* Bounds of the model *)

\* length of one block of the generated texts
BlockLen == 30
\* greatest number of blocks in a generated text
MaxBlocks == 7
\* greatest length of a generated school, class or subject name
MaxNameLen == 1
\* greatest number of failing external calls (embedding, upsert) in a behaviour
MaxFaults == 2
\* greatest content version of a source PDF (version 0 is a corrupt file)
MaxVersion == 2
\* greatest number of changes the environment makes to the source tree
MaxEnvSteps == 1
\* greatest length of a generated search query
MaxQueryLen == 2
\* greatest number of subjects in a generated subject mapping
MaxSubjects == 2
\* greatest length of a generated list of vectors
MaxVectors == 4
\* greatest generated batch size
MaxBatchSize == 3

----------------------------------------------------------------------------
(* Python values *)

PyNone == <<"None">>

Min(S) == CHOOSE x \in S : \A y \in S : x <= y
Max(S) == CHOOSE x \in S : \A y \in S : x >= y

\* c repeated n times
Rep(c, n) == [i \in 1..n |-> c]

\* str.isspace of one character
IsSpace(c) == c \in {" ", "\n", "\t"}

\* s[a:b] for 0 <= a <= b
Slice(s, a, b) == SubSeq(s, a + 1, IF b < Len(s) THEN b ELSE Len(s))

\* s.strip(): s without its leading and trailing whitespace
Strip(s) ==
    IF \A i \in 1..Len(s) : IsSpace(s[i]) THEN <<>>
    ELSE LET first == CHOOSE i \in 1..Len(s) :
                          ~IsSpace(s[i]) /\ \A j \in 1..(i - 1) : IsSpace(s[j])
             last == CHOOSE i \in 1..Len(s) :
                         ~IsSpace(s[i]) /\ \A j \in (i + 1)..Len(s) : IsSpace(s[j])
         IN  SubSeq(s, first, last)

\* the dict {}
EmptyDict == [k \in {} |-> PyNone]

\* None passed where a dict is expected
NoneDict == [py_none |-> TRUE]

\* d[k] = v
Put(d, k, v) == [x \in (DOMAIN d) \cup {k} |-> IF x = k THEN v ELSE d[x]]

\* bool(d) for a dict or None
Truthy(d) == d # NoneDict /\ DOMAIN d # {}

----------------------------------------------------------------------------
(* TextChunker.chunk_text *)

\* config.CHUNK_SIZE and config.CHUNK_OVERLAP, the defaults of TextChunker()
CHUNK_SIZE == 500
CHUNK_OVERLAP == 100

\* the threshold of `len(chunk.strip()) > 50`
MinChunkLen == 50

\* a bug: `chunk_metadata = metadata`, the caller's dict itself
ChunkMetadataTargetAlias(metadata) == IF Truthy(metadata) THEN "alias" ELSE "new"

\* `metadata.copy() if metadata else {}`: the dict that receives chunk_index
\* and chunk_size.  It is a fresh dict, so the caller's dict is not the one
\* written to.
ChunkMetadataTarget(metadata) == IF Truthy(metadata) THEN "copy" ELSE "new"

\* a bug: the length test without strip()
ViableNoStrip(chunk) == Len(chunk) > MinChunkLen

\* `len(chunk.strip()) > 50`
Viable(chunk) == Len(Strip(chunk)) > MinChunkLen

\* One pass of the loop body for the window starting at offset i.
\* st.chunks is the list built so far, st.arg the caller's metadata dict.
\* The field `offset` of a chunk is not in the code's dict: it records the
\* loop variable i at which the chunk was cut, for the properties below.
ChunkStep(st, text, chunk_size, i) ==
    LET chunk == Slice(text, i, i + chunk_size)
        base == IF Truthy(st.arg) THEN st.arg ELSE EmptyDict
        chunk_metadata ==
            Put(Put(base, "chunk_index", Len(st.chunks)), "chunk_size", Len(chunk))
        aliased == ChunkMetadataTarget(st.arg) = "alias"
    IN  IF Viable(chunk)
        THEN [chunks |-> Append(st.chunks,
                  [text |-> chunk, metadata |-> chunk_metadata,
                   chunk_index |-> Len(st.chunks), offset |-> i]),
              arg |-> IF aliased THEN chunk_metadata ELSE st.arg]
        ELSE st

\* a bug: the loop advancing by chunk_size, the overlap forgotten
RECURSIVE ChunkLoopNoOverlap(_, _, _, _, _)
ChunkLoopNoOverlap(st, text, chunk_size, step, i) ==
    IF i >= Len(text) THEN st
    ELSE ChunkLoopNoOverlap(ChunkStep(st, text, chunk_size, i), text, chunk_size,
                            step, i + chunk_size)

\* `for i in range(0, len(text), step)`
RECURSIVE ChunkLoop(_, _, _, _, _)
ChunkLoop(st, text, chunk_size, step, i) ==
    IF i >= Len(text) THEN st
    ELSE ChunkLoop(ChunkStep(st, text, chunk_size, i), text, chunk_size, step, i + step)

\* a bug: step = chunk_size + overlap, which leaves gaps between the windows
chunk_text_call_gaps(text, metadata, chunk_size, overlap) ==
    ChunkLoop([chunks |-> <<>>, arg |-> metadata], text, chunk_size,
              chunk_size + overlap, 0)

\* chunk_text(text, metadata) of a TextChunker(chunk_size, overlap), for
\* overlap < chunk_size: the returned list and the caller's dict afterwards
chunk_text_call(text, metadata, chunk_size, overlap) ==
    ChunkLoop([chunks |-> <<>>, arg |-> metadata], text, chunk_size,
              chunk_size - overlap, 0)

chunk_text(text, metadata, chunk_size, overlap) ==
    chunk_text_call(text, metadata, chunk_size, overlap).chunks

----------------------------------------------------------------------------
(* SpecChunk: chunk_text called twice on one text and one metadata dict *)

WordBlock == Rep("x", BlockLen)
SpaceBlock == Rep(" ", BlockLen)

RECURSIVE Concat(_)
Concat(ss) == IF ss = <<>> THEN <<>> ELSE Head(ss) \o Concat(Tail(ss))

\* the texts: up to MaxBlocks blocks of letters or of blanks, and the
\* 1200-character document of the end-to-end scenario
BlockTexts ==
    {Concat(bs) : bs \in UNION {[1..n -> {WordBlock, SpaceBlock}] : n \in 0..MaxBlocks}}

ScenarioText == Rep("x", 1200)

\* texts around the threshold of the length test
BoundaryTexts ==
    { Rep("x", MinChunkLen), Rep("x", MinChunkLen + 1),
      Rep(" ", 5) \o Rep("x", MinChunkLen) \o Rep(" ", 5),
      Rep(" ", 4) \o Rep("x", MinChunkLen + 1) \o Rep(" ", 4) }

ChunkTexts == BlockTexts \cup BoundaryTexts \cup {ScenarioText}

\* (chunk_size, overlap) pairs with 0 <= overlap < chunk_size
ChunkParams == {<<60, 0>>, <<70, 10>>, <<100, 20>>, <<CHUNK_SIZE, CHUNK_OVERLAP>>}

ChunkMetadatas ==
    { NoneDict,
      EmptyDict,
      [source_file |-> <<"a">>],
      [source_file |-> <<"a">>, chunk_index |-> 7] }

ChunkInit ==
    /\ ck_pc = "init"
    /\ ck_text \in ChunkTexts
    /\ \E p \in ChunkParams : ck_size = p[1] /\ ck_overlap = p[2]
    /\ ck_arg0 \in ChunkMetadatas
    /\ ck_arg = ck_arg0
    /\ ck_first = <<>>
    /\ ck_second = <<>>

ChunkFirst ==
    /\ ck_pc = "init"
    /\ LET r == chunk_text_call(ck_text, ck_arg, ck_size, ck_overlap)
       IN  ck_first' = r.chunks /\ ck_arg' = r.arg
    /\ ck_pc' = "once"
    /\ UNCHANGED <<ck_text, ck_size, ck_overlap, ck_arg0, ck_second>>
    /\ UNCHANGED not_ck

ChunkSecond ==
    /\ ck_pc = "once"
    /\ LET r == chunk_text_call(ck_text, ck_arg, ck_size, ck_overlap)
       IN  ck_second' = r.chunks /\ ck_arg' = r.arg
    /\ ck_pc' = "twice"
    /\ UNCHANGED <<ck_text, ck_size, ck_overlap, ck_arg0, ck_first>>
    /\ UNCHANGED not_ck

ChunkNext == ChunkFirst \/ ChunkSecond

----------------------------------------------------------------------------
(* EmbeddingPipeline._calculate_namespace *)

\* str.lower of one character, on the letters the names below use
LowerChar(c) ==
    CASE c = "A" -> "a"
      [] c = "C" -> "c"
      [] c = "M" -> "m"
      [] c = "N" -> "n"
      [] c = "R" -> "r"
      [] c = "S" -> "s"
      [] OTHER -> c

\* s.lower()
Lower(s) == [i \in 1..Len(s) |-> LowerChar(s[i])]

\* s.replace(' ', '_')
ReplaceSpace(s) == [i \in 1..Len(s) |-> IF s[i] = " " THEN "_" ELSE s[i]]

\* metadata.get(key, '')
GetOrEmpty(metadata, key) == IF key \in DOMAIN metadata THEN metadata[key] ELSE <<>>

\* metadata.get(key): None when the key is missing
GetOrNone(metadata, key) == IF key \in DOMAIN metadata THEN metadata[key] ELSE PyNone

\* f"{school}_{class_name}_{subject}"
JoinNamespace(school, class_name, subject) ==
    school \o <<"_">> \o class_name \o <<"_">> \o subject

\* a bug: the key built from whichever fields are present
JoinPartial(school, class_name, subject) ==
    IF school # <<>> \/ class_name # <<>> \/ subject # <<>>
    THEN JoinNamespace(school, class_name, subject) ELSE PyNone

\* `if school and class_name and subject: ... else: return None`
JoinComplete(school, class_name, subject) ==
    IF school # <<>> /\ class_name # <<>> /\ subject # <<>>
    THEN JoinNamespace(school, class_name, subject) ELSE PyNone

\* _calculate_namespace(metadata).  `.lower()` on None raises AttributeError:
\* a key that is present with the value None is not replaced by the default
\* of dict.get.  raised = TRUE stands for the exception leaving the method.
calculate_namespace(metadata) ==
    LET s == GetOrEmpty(metadata, "school")
        c == GetOrEmpty(metadata, "class")
        j == GetOrEmpty(metadata, "subject")
    IN  IF s = PyNone \/ c = PyNone \/ j = PyNone
        THEN [raised |-> TRUE, value |-> PyNone]
        ELSE [raised |-> FALSE,
              value |-> JoinComplete(ReplaceSpace(Lower(s)), ReplaceSpace(Lower(c)),
                                     ReplaceSpace(Lower(j)))]

----------------------------------------------------------------------------
(* EmbeddingPipeline.process_pipeline: the pure parts *)

\* config.BATCH_SIZE, the default batch_size of upsert_vectors
BATCH_SIZE == 32

\* the length of the text preview `text[:500]` in a vector's metadata
PreviewLen == 500

\* the dict d1 overridden by the entries of d2: {**d1, **d2}
Merge(d1, d2) ==
    [k \in (DOMAIN d1) \cup (DOMAIN d2) |-> IF k \in DOMAIN d2 THEN d2[k] ELSE d1[k]]

\* str(n) for 0 <= n <= 99
Decimal(n) ==
    LET digit(d) == CASE d = 0 -> "0" [] d = 1 -> "1" [] d = 2 -> "2" [] d = 3 -> "3"
                      [] d = 4 -> "4" [] d = 5 -> "5" [] d = 6 -> "6" [] d = 7 -> "7"
                      [] d = 8 -> "8" [] d = 9 -> "9"
    IN  IF n < 10 THEN <<digit(n)>> ELSE <<digit(n \div 10), digit(n % 10)>>

\* the metadata process_pipeline hands to chunk_text for a document
DocChunkMetadata(doc) ==
    [source_file |-> doc.metadata["source_file"],
     source_path |-> GetOrEmpty(doc.metadata, "source_path"),
     total_pages |-> doc.pages,
     school |-> GetOrNone(doc.metadata, "school"),
     class |-> GetOrNone(doc.metadata, "class"),
     subject |-> GetOrNone(doc.metadata, "subject")]

\* `for doc in documents: all_chunks.extend(chunk_text(doc['text'], ...))`
\* with the TextChunker() of the pipeline, which has the config defaults
RECURSIVE ChunkAll(_)
ChunkAll(documents) ==
    IF documents = <<>> THEN <<>>
    ELSE chunk_text(Head(documents).text, DocChunkMetadata(Head(documents)),
                    CHUNK_SIZE, CHUNK_OVERLAP) \o ChunkAll(Tail(documents))

\* a bug: ids that differ from run to run (time- or uuid-based)
VectorIdPerRun(source_file, chunk_idx) ==
    <<"vec_md5">> \o source_file \o <<"_">> \o Decimal(chunk_idx)
                 \o <<"_">> \o Decimal(pl_runs)

\* `"vec_" + md5(f"{source_file}_{chunk_idx}").hexdigest()[:12]`.  The digest
\* is kept as the string that is hashed, i.e. md5 is taken to be injective.
VectorId(source_file, chunk_idx) ==
    <<"vec_md5">> \o source_file \o <<"_">> \o Decimal(chunk_idx)

\* a bug: the chunk taken at the list position k of the surviving embeddings
JoinByListPosition(all_chunks, k, chunk_idx) == all_chunks[k]

\* `chunk_data = all_chunks[chunk_idx]`, chunk_idx the index the embedder
\* returned; k is the (1-based) position of the tuple in text_embeddings
JoinByReturnedIndex(all_chunks, k, chunk_idx) == all_chunks[chunk_idx + 1]

\* `{'text': text[:500], **chunk_data['metadata']}`
VectorMetadata(text, chunk_metadata) ==
    Merge([text |-> Slice(text, 0, PreviewLen)], chunk_metadata)

\* One pass of the loop over text_embeddings (lines 379-402) for the tuple
\* te = <<chunk_idx, text, embedding>> at list position k.  g is
\* [by_ns, default, raised]: vectors_by_namespace as the sequence of its
\* (namespace, vectors) entries in insertion order, vectors_without_namespace,
\* and whether _calculate_namespace raised.
GroupStep(g, all_chunks, k, te) ==
    LET chunk_data == JoinByReturnedIndex(all_chunks, k, te[1])
        source_file == IF "source_file" \in DOMAIN chunk_data.metadata
                       THEN chunk_data.metadata["source_file"]
                       ELSE <<"u","n","k","n","o","w","n">>
        vec == [id |-> VectorId(source_file, te[1]),
                values |-> te[3],
                metadata |-> VectorMetadata(te[2], chunk_data.metadata)]
        ns == calculate_namespace(chunk_data.metadata)
        at == {n \in 1..Len(g.by_ns) : g.by_ns[n].namespace = ns.value}
    IN  IF g.raised THEN g
        ELSE IF ns.raised THEN [g EXCEPT !.raised = TRUE]
        ELSE IF ns.value # PyNone
        THEN IF at = {}
             THEN [g EXCEPT !.by_ns =
                       Append(@, [namespace |-> ns.value, vectors |-> <<vec>>])]
             ELSE [g EXCEPT !.by_ns[Min(at)].vectors = Append(@, vec)]
        ELSE [g EXCEPT !.default = Append(@, vec)]

RECURSIVE GroupLoop(_, _, _, _)
GroupLoop(g, all_chunks, text_embeddings, k) ==
    IF k > Len(text_embeddings) THEN g
    ELSE GroupLoop(GroupStep(g, all_chunks, k, text_embeddings[k]),
                   all_chunks, text_embeddings, k + 1)

\* the grouping of lines 376-402
GroupVectors(all_chunks, text_embeddings) ==
    GroupLoop([by_ns |-> <<>>, default |-> <<>>, raised |-> FALSE],
              all_chunks, text_embeddings, 1)

\* the partition `index.upsert(vectors=...)` writes to when no namespace is
\* given: Pinecone's default namespace, the empty string
DefaultNamespace == <<>>

\* the calls of upsert_vectors that lines 406-416 make, in order: one entry
\* per namespace, then the vectors without namespace if there are any
UpsertPlan(by_ns, default) ==
    by_ns \o (IF default # <<>>
              THEN <<[namespace |-> PyNone, vectors |-> default]>> ELSE <<>>)

\* a bug: an upsert that adds records without replacing those of the same id
StoreAppend(index, namespace, batch) ==
    index \cup {[ns |-> IF namespace # PyNone /\ namespace # <<>> THEN namespace
                        ELSE DefaultNamespace,
                 id |-> batch[n].id, values |-> batch[n].values,
                 metadata |-> batch[n].metadata] : n \in 1..Len(batch)}

\* index.upsert(vectors=upsert_data[, namespace=namespace]) of lines 222-225:
\* within the partition a record replaces the stored record of the same id;
\* in a batch that repeats an id the last record wins
StoreUpsert(index, namespace, batch) ==
    LET part == IF namespace # PyNone /\ namespace # <<>> THEN namespace
                ELSE DefaultNamespace
        ids == {batch[n].id : n \in 1..Len(batch)}
        last(id) == Max({n \in 1..Len(batch) : batch[n].id = id})
    IN  {r \in index : ~(r.ns = part /\ r.id \in ids)}
        \cup {[ns |-> part, id |-> id, values |-> batch[last(id)].values,
               metadata |-> batch[last(id)].metadata] : id \in ids}

----------------------------------------------------------------------------
(* The source tree and PDFExtractor.extract_text_from_pdf *)

SchoolName == <<"S", " ", "N">>
ClassName == <<"c", "_", "0">>
SubjectMat == <<"M", "a", "t">>
SubjectRo == <<"R", "o">>

\* The source PDFs, as paths relative to source_dir (sequences of parts), in
\* the order in which rglob / glob list them.  PathN lies outside the
\* school/class/subject hierarchy.
PathA == <<SchoolName, ClassName, SubjectMat, <<"a", ".", "p", "d", "f">>>>
PathB == <<SchoolName, ClassName, SubjectRo, <<"b", ".", "p", "d", "f">>>>
PathN == << <<"n", ".", "p", "d", "f">> >>
PdfPaths == <<PathA, PathB, PathN>>

\* An *_extracted.json in the directory that no run of extract_pdfs wrote (it
\* has an empty subject, which no folder name is); load_extracted_texts reads
\* every file the glob matches.
PathF == << <<"f", ".", "p", "d", "f">> >>

\* the order in which load_extracted_texts lists the directory
DirOrder == <<PathA, PathB, PathF, PathN>>

SeqRange(q) == {q[n] : n \in 1..Len(q)}

\* parse_subject_from_path: the first three parts of the relative path, when
\* it has at least three parts
parse_subject_from_path(parts) ==
    IF Len(parts) >= 3
    THEN [school |-> parts[1], class |-> parts[2], subject |-> parts[3]]
    ELSE [school |-> PyNone, class |-> PyNone, subject |-> PyNone]

\* str(pdf_path): the parts joined by "/"
RECURSIVE JoinPath(_)
JoinPath(parts) ==
    IF Len(parts) = 1 THEN parts[1]
    ELSE parts[1] \o <<"/">> \o JoinPath(Tail(parts))

\* What PdfReader finds in a PDF with the given bytes (content version >= 1):
\* the page texts joined.  Version 1 of PathA is long enough for two chunks.
PdfText(parts, version) ==
    IF parts = PathA /\ version = 1 THEN Rep("x", 460)
    ELSE Rep("x", 60 + version)

PdfPages(parts, version) == IF parts = PathA /\ version = 1 THEN 2 ELSE 1

\* no file at a path of the directory
NoDoc == [absent |-> TRUE]

\* extract_text_from_pdf(pdf_path) for a readable PDF of content version >= 1
\* (every page has text); a corrupt or unreadable PDF makes PdfReader raise
\* and the method return None
extract_text_from_pdf(parts, version) ==
    LET subject_info == parse_subject_from_path(parts)
    IN  [pages |-> PdfPages(parts, version),
         text |-> PdfText(parts, version),
         extracted_pages |-> PdfPages(parts, version),
         metadata |-> [source_file |-> parts[Len(parts)],
                       source_path |-> JoinPath(parts),
                       school |-> subject_info.school,
                       class |-> subject_info.class,
                       subject |-> subject_info.subject]]

ForeignDoc ==
    [pages |-> 1, text |-> Rep("x", 60), extracted_pages |-> 1,
     metadata |-> [source_file |-> PathF[1], source_path |-> JoinPath(PathF),
                   school |-> SchoolName, class |-> ClassName, subject |-> <<>>]]

\* what the directory may hold at a path: nothing, or for a source PDF the
\* extraction of one of its content versions (two versions for PathA, whose
\* first version gives two chunks and whose second gives one)
DirChoices(parts) ==
    IF parts = PathF THEN {NoDoc, ForeignDoc}
    ELSE IF parts = PathA
    THEN {NoDoc, extract_text_from_pdf(parts, 1), extract_text_from_pdf(parts, 2)}
    ELSE {NoDoc, extract_text_from_pdf(parts, 1)}

\* the states of the extracted_texts directory
DirConfigs ==
    {d \in [SeqRange(DirOrder) -> UNION {DirChoices(k) : k \in SeqRange(DirOrder)}] :
        \A k \in SeqRange(DirOrder) : d[k] \in DirChoices(k)}

----------------------------------------------------------------------------
(* EmbeddingPipeline.process_pipeline, step by step *)

\* load_extracted_texts: the documents of the directory in listing order
RECURSIVE LoadFrom(_, _)
LoadFrom(d, order) ==
    IF order = <<>> THEN <<>>
    ELSE (IF d[Head(order)] = NoDoc THEN <<>> ELSE <<d[Head(order)]>>)
         \o LoadFrom(d, Tail(order))

load_extracted_texts(d) == LoadFrom(d, DirOrder)

\* the vector the embedding service returns for the text at position i;
\* the tag i tells the vectors of one run apart
EmbeddingFor(i) == <<"emb", i>>
NoEmbedding == <<"None">>

NoSummary == [absent |-> TRUE]
NoRun == [absent |-> TRUE]

PlPlan == UpsertPlan(pl_by_ns, pl_default)

\* every vector record process_pipeline built in this run
RECURSIVE ConcatVectors(_)
ConcatVectors(plan) ==
    IF plan = <<>> THEN <<>> ELSE Head(plan).vectors \o ConcatVectors(Tail(plan))

PlVectors == ConcatVectors(PlPlan)

PlIdle ==
    /\ pl_pc = "idle" /\ pl_documents = <<>> /\ pl_chunks = <<>> /\ pl_i = 0
    /\ pl_embeddings = <<>> /\ pl_requests = 0 /\ pl_by_ns = <<>>
    /\ pl_default = <<>> /\ pl_g = 1 /\ pl_off = 0 /\ pl_created = {}
    /\ pl_stored = 0 /\ pl_summary = NoSummary /\ pl_returned = <<>>
    /\ pl_faults = 0 /\ pl_runs = 0 /\ pl_prev = NoRun /\ pl_trace = <<>>

\* main() constructs the pipeline and process_pipeline loads and chunks the
\* documents (lines 344-366); at most two runs are followed
PlStart ==
    /\ pl_pc \in {"idle", "done", "failed", "crashed"}
    /\ ex_pc \in {"idle", "done"}
    /\ pl_runs < 2
    /\ pl_runs' = pl_runs + 1
    /\ pl_prev' = IF pl_pc = "idle" THEN NoRun
                  ELSE [pc |-> pl_pc, documents |-> pl_documents,
                        vectors |-> PlVectors, returned |-> pl_returned,
                        store |-> store]
    /\ pl_documents' = load_extracted_texts(dir)
    /\ pl_chunks' = ChunkAll(pl_documents')
    /\ pl_i' = 0 /\ pl_embeddings' = <<>> /\ pl_requests' = 0 /\ pl_returned' = <<>>
    /\ pl_by_ns' = <<>> /\ pl_default' = <<>> /\ pl_g' = 1 /\ pl_off' = 0
    /\ pl_created' = {} /\ pl_stored' = 0 /\ pl_summary' = NoSummary
    /\ pl_pc' = IF pl_chunks' = <<>> THEN "group" ELSE "embed"
    /\ pl_trace' = <<>>
    /\ UNCHANGED <<dir, store, pl_faults>>
    /\ UNCHANGED not_pl

\* what one pass of the loop of generate_embeddings_batch adds to the trace:
\* the call of the service and, when it gave an embedding, the sleep of
\* line 115
EmbedEvents(outcome) ==
    IF outcome = "ok" THEN <<"embed", "sleep">> ELSE <<"embed">>

\* what one pass of the loop of upsert_vectors adds to the trace: the call of
\* index.upsert and, when it did not raise, the sleep of line 229
UpsertEvents(ok) == IF ok THEN <<"upsert", "sleep">> ELSE <<"upsert">>

\* one pass of the loop of generate_embeddings_batch (lines 109-117):
\* generate_embedding answers with a vector ("ok"), with a 200 response of
\* unexpected format ("bad_format", counted as a request) or with an error
PlEmbed(outcome) ==
    /\ pl_pc = "embed"
    /\ outcome # "ok" => pl_faults < MaxFaults
    /\ pl_faults' = IF outcome = "ok" THEN pl_faults ELSE pl_faults + 1
    /\ pl_requests' = IF outcome = "error" THEN pl_requests ELSE pl_requests + 1
    /\ pl_embeddings' =
          IF outcome = "ok"
          THEN Append(pl_embeddings, <<pl_i, pl_chunks[pl_i + 1].text, EmbeddingFor(pl_i)>>)
          ELSE pl_embeddings
    /\ pl_returned' = Append(pl_returned,
                             IF outcome = "ok" THEN EmbeddingFor(pl_i) ELSE NoEmbedding)
    /\ pl_trace' = pl_trace \o EmbedEvents(outcome)
    /\ pl_i' = pl_i + 1
    /\ pl_pc' = IF pl_i + 1 = Len(pl_chunks) THEN "group" ELSE "embed"
    /\ UNCHANGED <<dir, store, pl_documents, pl_chunks, pl_by_ns, pl_default, pl_g,
                   pl_off, pl_created, pl_stored, pl_summary, pl_runs, pl_prev>>
    /\ UNCHANGED not_pl

\* lines 376-402: the vectors grouped by namespace; an exception of
\* _calculate_namespace leaves process_pipeline and ends the run
PlGroup ==
    /\ pl_pc = "group"
    /\ LET g == GroupVectors(pl_chunks, pl_embeddings)
       IN  IF g.raised
           THEN pl_pc' = "crashed" /\ UNCHANGED <<pl_by_ns, pl_default>>
           ELSE pl_pc' = "upsert" /\ pl_by_ns' = g.by_ns /\ pl_default' = g.default
    /\ UNCHANGED <<dir, store, pl_documents, pl_chunks, pl_i, pl_embeddings,
                   pl_requests, pl_g, pl_off, pl_created, pl_stored, pl_summary,
                   pl_returned, pl_faults, pl_runs, pl_prev, pl_trace>>
    /\ UNCHANGED not_pl


\* a bug: a failed upsert is logged and the run goes on with the next batch
PlUpsertKeepGoing(ok) ==
    /\ pl_pc = "upsert"
    /\ pl_g <= Len(PlPlan)
    /\ ~ok => pl_faults < MaxFaults
    /\ LET call == PlPlan[pl_g]
           batch == Slice(call.vectors, pl_off, pl_off + BATCH_SIZE)
           last == pl_off + BATCH_SIZE >= Len(call.vectors)
       IN  /\ store' = IF ok THEN StoreUpsert(store, call.namespace, batch) ELSE store
           /\ pl_faults' = IF ok THEN pl_faults ELSE pl_faults + 1
           /\ pl_off' = IF last THEN 0 ELSE pl_off + BATCH_SIZE
           /\ pl_g' = IF last THEN pl_g + 1 ELSE pl_g
           /\ pl_created' = IF last /\ call.namespace # PyNone
                            THEN pl_created \cup {call.namespace} ELSE pl_created
           /\ pl_stored' = IF last THEN pl_stored + Len(call.vectors) ELSE pl_stored
    /\ pl_pc' = "upsert"
    /\ pl_trace' = pl_trace \o UpsertEvents(ok)
    /\ UNCHANGED <<dir, pl_documents, pl_chunks, pl_i, pl_embeddings, pl_requests,
                   pl_by_ns, pl_default, pl_summary, pl_returned, pl_runs, pl_prev>>
    /\ UNCHANGED not_pl

\* one pass of the loop of upsert_vectors (lines 209-229) within the call of
\* lines 408 / 415 in progress: the batch is sent to the index; when the call
\* raises, upsert_vectors re-raises and the run ends (lines 231-233, 459-461)
PlUpsert(ok) ==
    /\ pl_pc = "upsert"
    /\ pl_g <= Len(PlPlan)
    /\ LET call == PlPlan[pl_g]
           batch == Slice(call.vectors, pl_off, pl_off + BATCH_SIZE)
           last == pl_off + BATCH_SIZE >= Len(call.vectors)
       IN  IF ok
           THEN /\ store' = StoreUpsert(store, call.namespace, batch)
                /\ pl_faults' = pl_faults
                /\ pl_pc' = "upsert"
                /\ pl_off' = IF last THEN 0 ELSE pl_off + BATCH_SIZE
                /\ pl_g' = IF last THEN pl_g + 1 ELSE pl_g
                /\ pl_created' = IF last /\ call.namespace # PyNone
                                 THEN pl_created \cup {call.namespace} ELSE pl_created
                /\ pl_stored' = IF last THEN pl_stored + Len(call.vectors) ELSE pl_stored
           ELSE /\ pl_faults < MaxFaults
                /\ pl_faults' = pl_faults + 1
                /\ pl_pc' = "failed"
                /\ UNCHANGED <<store, pl_off, pl_g, pl_created, pl_stored>>
    /\ pl_trace' = pl_trace \o UpsertEvents(ok)
    /\ UNCHANGED <<dir, pl_documents, pl_chunks, pl_i, pl_embeddings, pl_requests,
                   pl_by_ns, pl_default, pl_summary, pl_returned, pl_runs, pl_prev>>
    /\ UNCHANGED not_pl

\* lines 418-433: the summary
PlFinish ==
    /\ pl_pc = "upsert"
    /\ pl_g > Len(PlPlan)
    /\ pl_summary' =
          [documents_processed |-> Len(pl_documents),
           chunks_created |-> Len(pl_chunks),
           embeddings_generated |-> Len(pl_embeddings),
           vectors_stored |-> pl_stored,
           namespaces_created |-> pl_created,
           vectors_in_namespaces |->
               {<<pl_by_ns[n].namespace, Len(pl_by_ns[n].vectors)>> : n \in 1..Len(pl_by_ns)},
           vectors_in_default |-> Len(pl_default),
           cloudflare_requests |-> pl_requests]
    /\ pl_pc' = "done"
    /\ UNCHANGED <<dir, store, pl_documents, pl_chunks, pl_i, pl_embeddings,
                   pl_requests, pl_by_ns, pl_default, pl_g, pl_off, pl_created,
                   pl_stored, pl_returned, pl_faults, pl_runs, pl_prev, pl_trace>>
    /\ UNCHANGED not_pl

\* between two runs the directory changes: one extracted file is added,
\* removed or rewritten
EnvDir ==
    /\ pl_pc \in {"done", "failed", "crashed"}
    /\ pl_runs = 1
    /\ pl_prev = NoRun
    /\ \E k \in SeqRange(DirOrder) : \E d \in DirChoices(k) \ {dir[k]} :
           dir' = [dir EXCEPT ![k] = d]
    /\ UNCHANGED <<store, pl_pc, pl_documents, pl_chunks, pl_i, pl_embeddings,
                   pl_requests, pl_by_ns, pl_default, pl_g, pl_off, pl_created,
                   pl_stored, pl_summary, pl_returned, pl_faults, pl_runs, pl_prev,
                   pl_trace>>
    /\ UNCHANGED not_pl

PipelineInit ==
    /\ dir \in DirConfigs
    /\ store = {}
    /\ PlIdle

PipelineNext ==
    \/ PlStart
    \/ \E outcome \in {"ok", "bad_format", "error"} : PlEmbed(outcome)
    \/ PlGroup
    \/ \E ok \in BOOLEAN : PlUpsert(ok)
    \/ PlFinish
    \/ EnvDir

----------------------------------------------------------------------------
(* PDFExtractor: the manifest and extract_all *)

\* hashlib.md5(...).hexdigest() of a file's bytes and of a text; md5 is taken
\* to be injective, the digest is the hashed value under a tag
Md5Bytes(version) == <<"md5", version>>
Md5Text(text) == <<"md5", text>>

\* calculate_file_hash: None when the file cannot be opened or read
calculate_file_hash(file) ==
    IF file.readable THEN Md5Bytes(file.bytes) ELSE PyNone

\* no entry for a path in manifest['files']
NoEntry == [absent |-> TRUE]

\* a bug: a path in the manifest is answered unchanged, whatever its bytes
should_process_by_path(files, parts, file, force) ==
    IF force THEN <<TRUE, "Force reprocessing">>
    ELSE IF calculate_file_hash(file) = PyNone
    THEN <<FALSE, "Failed to calculate file hash">>
    ELSE IF files[parts] = NoEntry THEN <<TRUE, "New file">>
    ELSE <<FALSE, "File unchanged">>

\* should_process_file(pdf_path, force) with self.manifest['files'] = files
\* and the file at pdf_path in the state `file`: (should_process, reason)
should_process_file(files, parts, file, force) ==
    IF force THEN <<TRUE, "Force reprocessing">>
    ELSE LET current_hash == calculate_file_hash(file)
         IN  IF current_hash = PyNone THEN <<FALSE, "Failed to calculate file hash">>
             ELSE IF files[parts] = NoEntry THEN <<TRUE, "New file">>
             ELSE IF files[parts].source_hash # current_hash
             THEN <<TRUE, "File modified (hash changed)">>
             ELSE <<FALSE, "File unchanged">>

\* whether extract_text_from_pdf returns a result: PdfReader raises on a file
\* it cannot open and on a corrupt one (content version 0)
Extractable(file) == file.readable /\ file.bytes >= 1

\* the manifest entry of lines 308-318 (the timestamp left out)
ManifestEntry(result, source_hash) ==
    [source_hash |-> source_hash,
     extracted_hash |-> Md5Text(result.text),
     extracted_pages |-> result.extracted_pages,
     total_pages |-> result.pages,
     extraction_status |-> "success",
     school |-> GetOrNone(result.metadata, "school"),
     class |-> GetOrNone(result.metadata, "class"),
     subject |-> GetOrNone(result.metadata, "subject")]

\* a bug: a failed extraction recorded in the manifest all the same
FilesAfterFailureRecorded(files, parts) ==
    [files EXCEPT ![parts] =
        [source_hash |-> PyNone, extracted_hash |-> PyNone, extracted_pages |-> 0,
         total_pages |-> 0, extraction_status |-> "failed", school |-> PyNone,
         class |-> PyNone, subject |-> PyNone]]

\* manifest['files'] after a failed extraction (lines 319-320): untouched
FilesAfterFailure(files, parts) == files

\* a bug: no filter, every file processed in incremental mode too
FilterNothing(pdf_files, files, tree, incremental, force) ==
    [process |-> pdf_files, skipped |-> <<>>]

\* the filter of lines 258-272: the files to process and the skipped ones
RECURSIVE FilterFiles(_, _, _, _, _)
FilterFiles(pdf_files, files, tree, incremental, force) ==
    IF ~(incremental /\ ~force)
    THEN [process |-> pdf_files, skipped |-> <<>>]
    ELSE IF pdf_files = <<>> THEN [process |-> <<>>, skipped |-> <<>>]
    ELSE LET parts == Head(pdf_files)
             answer == should_process_file(files, parts, tree[parts], force)
             rest == FilterFiles(Tail(pdf_files), files, tree, incremental, force)
         IN  IF answer[1]
             THEN [process |-> <<parts>> \o rest.process, skipped |-> rest.skipped]
             ELSE [process |-> rest.process,
                   skipped |-> <<<<parts, answer[2]>>>> \o rest.skipped]

\* the count the log line of the filter gives as "unchanged" (line 266)
SkippingUnchanged(skipped) == Len(skipped)

NoResult == [absent |-> TRUE]
NoAnswer == [absent |-> TRUE]

\* a bug: every extractor starts from a new manifest
load_manifest_new(ok, files) == [k \in SeqRange(PdfPaths) |-> NoEntry]

\* load_manifest()['files'] for a manifest file that holds `files`: a file
\* that cannot be read or parsed gives a new manifest (lines 152-154)
load_manifest(ok, files) ==
    IF ok THEN files ELSE [k \in SeqRange(PdfPaths) |-> NoEntry]

ExIdle ==
    /\ ex_pc = "idle" /\ ex_incremental = FALSE /\ ex_force = FALSE
    /\ ex_manifest = [k \in SeqRange(PdfPaths) |-> NoEntry]
    /\ ex_todo = <<>> /\ ex_skipped = <<>> /\ ex_cur = NoResult
    /\ ex_successful = 0 /\ ex_failed = 0 /\ ex_summary = NoSummary
    /\ ex_runs = 0 /\ ex_seen = NoRun /\ ex_done = {} /\ env_steps = 0
    /\ ex_answer = NoAnswer

\* PDFExtractor() loads the manifest; extract_all lists the PDFs and filters
\* them (lines 243-277); at most two runs are followed, and the two programs
\* are run one after the other
ExStart(incremental, force) ==
    /\ ex_pc \in {"idle", "done"}
    /\ pl_pc \in {"idle", "done", "failed", "crashed"}
    /\ ex_runs < 2
    /\ ex_manifest' = load_manifest(manifest_ok, manifest_disk)
    /\ LET f == FilterFiles(PdfPaths, ex_manifest', src, incremental, force)
       IN  ex_todo' = f.process /\ ex_skipped' = f.skipped
    /\ ex_incremental' = incremental /\ ex_force' = force
    /\ ex_cur' = NoResult /\ ex_successful' = 0 /\ ex_failed' = 0
    /\ ex_summary' = NoSummary
    /\ ex_runs' = ex_runs + 1
    /\ ex_seen' = [tree |-> src, files |-> ex_manifest', loaded |-> manifest_ok]
    /\ ex_done' = {}
    /\ ex_pc' = "loop"
    /\ ex_answer' = NoAnswer
    /\ UNCHANGED <<src, manifest_disk, manifest_ok, dir, env_steps>>
    /\ UNCHANGED not_ex

\* a bug: the first failed extraction ends the loop over the files
ExReadStopsAtFailure ==
    /\ ex_pc = "loop"
    /\ ex_todo # <<>>
    /\ LET parts == Head(ex_todo)
       IN  IF Extractable(src[parts])
           THEN /\ ex_cur' = extract_text_from_pdf(parts, src[parts].bytes)
                /\ dir' = [dir EXCEPT ![parts] = ex_cur']
                /\ ex_successful' = ex_successful + 1
                /\ ex_done' = ex_done \cup {parts}
                /\ ex_pc' = "record"
                /\ UNCHANGED <<ex_failed, ex_todo, ex_manifest>>
           ELSE /\ ex_failed' = ex_failed + 1
                /\ ex_manifest' = FilesAfterFailure(ex_manifest, parts)
                /\ ex_todo' = <<>>
                /\ UNCHANGED <<ex_cur, dir, ex_successful, ex_done, ex_pc>>
    /\ UNCHANGED <<src, manifest_disk, manifest_ok, ex_incremental, ex_force,
                   ex_skipped, ex_summary, ex_runs, ex_seen, env_steps, ex_answer>>
    /\ UNCHANGED not_ex

\* lines 279-301 for the next file: the PDF is read and, on success, its
\* extraction written to the directory
ExRead ==
    /\ ex_pc = "loop"
    /\ ex_todo # <<>>
    /\ LET parts == Head(ex_todo)
       IN  IF Extractable(src[parts])
           THEN /\ ex_cur' = extract_text_from_pdf(parts, src[parts].bytes)
                /\ dir' = [dir EXCEPT ![parts] = ex_cur']
                /\ ex_successful' = ex_successful + 1
                /\ ex_done' = ex_done \cup {parts}
                /\ ex_pc' = "record"
                /\ UNCHANGED <<ex_failed, ex_todo, ex_manifest>>
           ELSE /\ ex_failed' = ex_failed + 1
                /\ ex_manifest' = FilesAfterFailure(ex_manifest, parts)
                /\ ex_todo' = Tail(ex_todo)
                /\ UNCHANGED <<ex_cur, dir, ex_successful, ex_done, ex_pc>>
    /\ UNCHANGED <<src, manifest_disk, manifest_ok, ex_incremental, ex_force,
                   ex_skipped, ex_summary, ex_runs, ex_seen, env_steps, ex_answer>>
    /\ UNCHANGED not_ex

\* lines 303-318: the file is read again for its fingerprint and the
\* manifest entry written
ExRecord ==
    /\ ex_pc = "record"
    /\ LET parts == Head(ex_todo)
       IN  ex_manifest' = [ex_manifest EXCEPT ![parts] =
               ManifestEntry(ex_cur, calculate_file_hash(src[parts]))]
    /\ ex_todo' = Tail(ex_todo)
    /\ ex_cur' = NoResult
    /\ ex_pc' = "loop"
    /\ UNCHANGED <<src, manifest_disk, manifest_ok, dir, ex_incremental, ex_force,
                   ex_skipped, ex_successful, ex_failed, ex_summary, ex_runs, ex_seen,
                   ex_done, env_steps, ex_answer>>
    /\ UNCHANGED not_ex

\* lines 322-343: the summary, and save_manifest
ExFinish ==
    /\ ex_pc = "loop"
    /\ ex_todo = <<>>
    /\ ex_summary' = [total_files |-> Len(PdfPaths), successful |-> ex_successful,
                      failed |-> ex_failed]
    /\ manifest_disk' = ex_manifest
    /\ manifest_ok' = TRUE
    /\ ex_pc' = "done"
    /\ UNCHANGED <<src, dir, ex_incremental, ex_force, ex_manifest, ex_todo,
                   ex_skipped, ex_cur, ex_successful, ex_failed, ex_runs, ex_seen,
                   ex_done, env_steps, ex_answer>>
    /\ UNCHANGED not_ex

\* the environment rewrites a source PDF (new bytes), or makes it unreadable
\* or readable again.  Changes made while the embedding pipeline runs are not
\* followed: the pipeline does not read the source tree.
EnvSource ==
    /\ env_steps < MaxEnvSteps
    /\ pl_pc \in {"idle", "done", "failed", "crashed"}
    /\ env_steps' = env_steps + 1
    /\ \E parts \in SeqRange(PdfPaths) :
          \/ \E v \in (0..MaxVersion) \ {src[parts].bytes} :
                src' = [src EXCEPT ![parts].bytes = v]
          \/ src' = [src EXCEPT ![parts].readable = ~@]
    /\ UNCHANGED <<manifest_disk, manifest_ok, dir, ex_pc, ex_incremental, ex_force,
                   ex_manifest, ex_todo, ex_skipped, ex_cur, ex_successful, ex_failed,
                   ex_summary, ex_runs, ex_seen, ex_done, ex_answer>>
    /\ UNCHANGED not_ex

\* the environment leaves .extraction_manifest.json unreadable or cut short
\* (a crash while it was being written, a damaged disk): json.load will raise
EnvManifest ==
    /\ ex_pc \in {"idle", "done"}
    /\ manifest_ok
    /\ manifest_ok' = FALSE
    /\ UNCHANGED <<src, manifest_disk, dir, ex_pc, ex_incremental, ex_force,
                   ex_manifest, ex_todo, ex_skipped, ex_cur, ex_successful, ex_failed,
                   ex_summary, ex_runs, ex_seen, ex_done, ex_answer, env_steps>>
    /\ UNCHANGED not_ex

\* should_process_file(pdf_path, force) called on an extractor that is not
\* in the loop of extract_all, where the code calls it (lines 260-261); the
\* call changes nothing, its arguments, what it read and its answer are kept
ExShould(parts, force) ==
    /\ ex_pc \in {"idle", "done"}
    /\ ex_answer' = [parts |-> parts, force |-> force, entry |-> ex_manifest[parts],
                     file |-> src[parts],
                     answer |-> should_process_file(ex_manifest, parts, src[parts], force)]
    /\ UNCHANGED <<src, manifest_disk, manifest_ok, dir, ex_pc, ex_incremental,
                   ex_force, ex_manifest, ex_todo, ex_skipped, ex_cur, ex_successful,
                   ex_failed, ex_summary, ex_runs, ex_seen, ex_done, env_steps>>
    /\ UNCHANGED not_ex

ExtractInit ==
    /\ src = [k \in SeqRange(PdfPaths) |-> [bytes |-> 1, readable |-> TRUE]]
    /\ manifest_disk = [k \in SeqRange(PdfPaths) |-> NoEntry]
    /\ manifest_ok = TRUE
    /\ ExIdle

ExtractNext ==
    \/ \E incremental, force \in BOOLEAN : ExStart(incremental, force)
    \/ ExRead
    \/ ExRecord
    \/ ExFinish
    \/ EnvSource
    \/ \E parts \in SeqRange(PdfPaths), force \in BOOLEAN : ExShould(parts, force)

----------------------------------------------------------------------------
(* SpecNs: _calculate_namespace on one metadata dict *)

NameAlphabet == {"A", "a", " ", "_"}

\* the strings of length 0..n over NameAlphabet
StringsUpTo(n) == UNION {[1..k -> NameAlphabet] : k \in 0..n}

\* names as the extractor takes them from the folder names of a PDF's path
FolderNames ==
    { <<"S","c","o","a","l","a"," ","N","o","r","m","a","l","a">>,
      <<"c","l","a","s","a","_","0">>,
      <<"M","a","t","e","m","a","t","i","c","a">>,
      <<"S","c","o","a","l","a">>,
      <<"N","o","r","m","a","l","a","_","c","l","a","s","a","_","0">> }

NsFieldValues == StringsUpTo(MaxNameLen) \cup FolderNames \cup {PyNone}

\* every dict over the keys school, class, subject (each present or not)
NsMetadatas ==
    UNION {[ks -> NsFieldValues] : ks \in SUBSET {"school", "class", "subject"}}

NsInit ==
    /\ ns_pc = "init"
    /\ ns_metadata \in NsMetadatas
    /\ ns_result = [raised |-> FALSE, value |-> PyNone]

NsCalculate ==
    /\ ns_pc = "init"
    /\ ns_result' = calculate_namespace(ns_metadata)
    /\ ns_pc' = "done"
    /\ UNCHANGED ns_metadata
    /\ UNCHANGED not_ns

NsNext == NsCalculate

----------------------------------------------------------------------------
(* search.py: SubjectRouter *)

\* `kw in query`: kw occurs in query as a substring
Contains(kw, query) ==
    \E i \in 0..(Len(query) - Len(kw)) : SubSeq(query, i + 1, i + Len(kw)) = kw

\* mapping.get('subjects', [])
GetSubjects(mapping) ==
    IF "subjects" \in DOMAIN mapping THEN mapping["subjects"] ELSE <<>>

\* subject_config.get('keywords', []) and subject_config.get('aliases', [])
GetKeywords(subject_config) ==
    IF "keywords" \in DOMAIN subject_config THEN subject_config["keywords"] ELSE <<>>

GetAliases(subject_config) ==
    IF "aliases" \in DOMAIN subject_config THEN subject_config["aliases"] ELSE <<>>

\* subject_config.get('namespace', default)
GetNamespaceOr(subject_config, default) ==
    IF "namespace" \in DOMAIN subject_config THEN subject_config["namespace"] ELSE default

\* `sum(1 for kw in keywords if kw.lower() in query_lower)`
KeywordMatches(subject_config, query_lower) ==
    LET keywords == GetKeywords(subject_config)
    IN  Cardinality({k \in 1..Len(keywords) : Contains(Lower(keywords[k]), query_lower)})

\* a bug: a later subject with an equal score replaces the best match
ScoreBeatsOrTies(matches, best_score) == matches >= best_score

\* `if matches > best_score`
ScoreBeats(matches, best_score) == matches > best_score

\* the loop of lines 80-86; best is [match, score]
RECURSIVE RouteLoop(_, _, _)
RouteLoop(subjects, query_lower, best) ==
    IF subjects = <<>> THEN best
    ELSE LET matches == KeywordMatches(Head(subjects), query_lower)
         IN  RouteLoop(Tail(subjects), query_lower,
                       IF ScoreBeats(matches, best.score)
                       THEN [match |-> Head(subjects), score |-> matches]
                       ELSE best)

\* route_query(query, school, class_name): a namespace or None
route_query(mapping, query, school, class_name) ==
    IF ~Truthy(mapping) THEN PyNone
    ELSE LET best == RouteLoop(GetSubjects(mapping), Lower(query),
                               [match |-> NoneDict, score |-> 0])
         IN  IF Truthy(best.match)
             THEN JoinNamespace(school, class_name,
                      GetNamespaceOr(best.match,
                                     ReplaceSpace(Lower(best.match["primary"]))))
             ELSE PyNone

\* a bug: the aliases are not looked at
SubjectMatchesPrimary(subject_config, subject) ==
    Lower(subject) = Lower(subject_config["primary"])

\* the test of lines 115-116
SubjectMatches(subject_config, subject) ==
    \/ Lower(subject) = Lower(subject_config["primary"])
    \/ \E k \in 1..Len(GetAliases(subject_config)) :
           Lower(subject) = Lower(GetAliases(subject_config)[k])

\* the loop of lines 114-120
RECURSIVE FindLoop(_, _, _, _)
FindLoop(subjects, subject, school, class_name) ==
    IF subjects = <<>> THEN PyNone
    ELSE IF SubjectMatches(Head(subjects), subject)
    THEN JoinNamespace(school, class_name,
             GetNamespaceOr(Head(subjects), ReplaceSpace(Lower(subject))))
    ELSE FindLoop(Tail(subjects), subject, school, class_name)

\* find_namespace(query, subject, school, class_name): a namespace or None
find_namespace(mapping, subject, school, class_name) ==
    IF ~Truthy(mapping) THEN PyNone
    ELSE FindLoop(GetSubjects(mapping), subject, school, class_name)

\* the subjects of subject_mapping.json: with and without a namespace
\* override, with keywords in common, and one with a primary name only
SubjMat ==
    [primary |-> <<"M","a","t">>, aliases |-> << <<"M","a">> >>,
     keywords |-> << <<"a">>, <<"M","a">> >>]
SubjMatNs ==
    [primary |-> <<"M","a","t">>, aliases |-> << <<"M","a">> >>,
     keywords |-> << <<"a">>, <<"M","a">> >>, namespace |-> <<"m","x">>]
SubjRo ==
    [primary |-> <<"R","o">>, aliases |-> << <<"R"," ","o">>, <<"M","a">> >>,
     keywords |-> << <<"r">>, <<"a">> >>]
SubjBare == [primary |-> <<"S"," ","a">>]

SubjectConfigs == {SubjMat, SubjMatNs, SubjRo, SubjBare}

\* subject_mapping: None (no file), {} , a file without 'subjects', or up to
\* MaxSubjects subjects in any order
SubjectMappings ==
    {NoneDict, EmptyDict, [version |-> 1]}
    \cup {[subjects |-> q] : q \in UNION {[1..n -> SubjectConfigs] : n \in 0..MaxSubjects}}

QueryAlphabet == {"M", "a", "r"}

\* the queries: the strings of length 0..MaxQueryLen over QueryAlphabet
Queries == UNION {[1..k -> QueryAlphabet] : k \in 0..MaxQueryLen}

\* the subject names asked for
SubjectNames ==
    { <<"M","a","t">>, <<"M","A","t">>, <<"m","a">>, <<"R","o">>, <<"r"," ","o">>,
      <<"S"," ","a">>, <<"x">> }

\* school and class, already normalized as the callers of the router pass them
SchoolNorm == ReplaceSpace(Lower(SchoolName))
ClassNorm == ReplaceSpace(Lower(ClassName))

\* the requests: every query with one subject name, and every subject name
\* with one query
Requests ==
    [query : Queries, subject : {<<"m","a">>}, school : {SchoolNorm}, class : {ClassNorm}]
    \cup [query : {<<"a">>}, subject : SubjectNames, school : {SchoolNorm},
          class : {ClassNorm}]

NoCall == [absent |-> TRUE]

\* SubjectRouter.route_query on the request
RouteQuery ==
    /\ rt_auto = NoCall
    /\ rt_auto' = [result |-> route_query(rt_mapping, rt_request.query,
                                          rt_request.school, rt_request.class)]
    /\ UNCHANGED <<rt_mapping, rt_request, rt_explicit, sr_search>>
    /\ UNCHANGED not_sr

\* SubjectRouter.find_namespace on the request
FindNamespace ==
    /\ rt_explicit = NoCall
    /\ rt_explicit' = [result |-> find_namespace(rt_mapping, rt_request.subject,
                                                 rt_request.school, rt_request.class)]
    /\ UNCHANGED <<rt_mapping, rt_request, rt_auto, sr_search>>
    /\ UNCHANGED not_sr

----------------------------------------------------------------------------
(* search.py: DualInterfaceSearch *)

\* config: the default top_k of the searches
TopK == 5

\* the store a run of process_pipeline leaves when every call succeeds
RECURSIVE UpsertAll(_, _)
UpsertAll(index, plan) ==
    IF plan = <<>> THEN index
    ELSE UpsertAll(StoreUpsert(index, Head(plan).namespace, Head(plan).vectors),
                   Tail(plan))

StoreAfterRun(documents) ==
    LET chunks == ChunkAll(documents)
        text_embeddings == [i \in 1..Len(chunks) |->
                               <<i - 1, chunks[i].text, EmbeddingFor(i - 1)>>]
        g == GroupVectors(chunks, text_embeddings)
    IN  UpsertAll({}, UpsertPlan(g.by_ns, g.default))

\* the index the searches run against: filled by a run over two documents
\* of the hierarchy and one of incomplete metadata
SearchStores ==
    {StoreAfterRun(<<extract_text_from_pdf(PathA, 1),
                     extract_text_from_pdf(PathB, 1), ForeignDoc>>)}

\* a bug: the records of every partition returned
IndexSearchEverywhere(index, namespace, ok) == IF ok THEN index ELSE {}

\* PineconeIndexManager.search: the matches of index.query in the namespace,
\* or in the default partition when namespace is None or empty; [] when the
\* call raises.  The ranking is not modelled: a partition holds at most TopK
\* records, which are all returned.
IndexSearch(index, namespace, ok) ==
    LET part == IF namespace # PyNone /\ namespace # <<>> THEN namespace
                ELSE DefaultNamespace
    IN  IF ok THEN {r \in index : r.ns = part} ELSE {}

\* s.split(sep) for a one-character sep
RECURSIVE SplitOn(_, _)
SplitOn(s, sep) ==
    IF \A i \in 1..Len(s) : s[i] # sep THEN <<s>>
    ELSE LET i == CHOOSE j \in 1..Len(s) :
                      s[j] = sep /\ \A k \in 1..(j - 1) : s[k] # sep
         IN  <<SubSeq(s, 1, i - 1)>> \o SplitOn(SubSeq(s, i + 1, Len(s)), sep)

\* ' '.join(parts)
RECURSIVE JoinSpaces(_)
JoinSpaces(parts) ==
    IF parts = <<>> THEN <<>>
    ELSE IF Len(parts) = 1 THEN parts[1]
    ELSE parts[1] \o <<" ">> \o JoinSpaces(Tail(parts))

\* str.upper of one character, on the letters the names use
UpperChar(c) ==
    CASE c = "a" -> "A"
      [] c = "c" -> "C"
      [] c = "m" -> "M"
      [] c = "n" -> "N"
      [] c = "o" -> "O"
      [] c = "r" -> "R"
      [] c = "s" -> "S"
      [] c = "t" -> "T"
      [] c = "x" -> "X"
      [] OTHER -> c

IsLetter(c) == UpperChar(c) # c \/ LowerChar(c) # c

\* s.title(): a letter that follows a non-letter is uppercased, any other
\* letter lowercased
Title(s) ==
    [i \in 1..Len(s) |->
        IF i = 1 \/ ~IsLetter(s[i - 1]) THEN UpperChar(s[i]) ELSE LowerChar(s[i])]

\* the display name of lines 215-216 and 221
SubjectDisplay(namespace) ==
    LET parts == SplitOn(namespace, "_")
    IN  Title(IF Len(parts) > 2 THEN JoinSpaces(SubSeq(parts, 3, Len(parts)))
              ELSE <<"U","n","k","n","o","w","n">>)

AllSubjects == <<"A","l","l"," ","S","u","b","j","e","c","t","s">>
ErrorSubject == <<"E","r","r","o","r">>

\* search_with_subject(query, subject, school, class_name) for the request,
\* the caller giving the school and class as folder names.  embed_ok and
\* query_ok tell whether the embedding service and the index answer.  The
\* record kept of the call: the namespace the router gave, whether the
\* embedding service and the index were called and answered, the partitions
\* queried, and the value returned.
SearchWithSubject(embed_ok, query_ok) ==
    /\ sr_search = NoCall
    /\ LET namespace == find_namespace(rt_mapping, rt_request.subject,
                                       ReplaceSpace(Lower(SchoolName)),
                                       ReplaceSpace(Lower(ClassName)))
       IN  sr_search' =
             IF namespace = PyNone
             THEN [mode |-> "explicit", namespace |-> namespace, embedding |-> "none",
                   queried |-> <<>>, index |-> "none", returned |-> {}]
             ELSE IF ~embed_ok
             THEN [mode |-> "explicit", namespace |-> namespace, embedding |-> "failed",
                   queried |-> <<>>, index |-> "none", returned |-> {}]
             ELSE [mode |-> "explicit", namespace |-> namespace, embedding |-> "ok",
                   queried |-> <<namespace>>,
                   index |-> IF query_ok THEN "ok" ELSE "failed",
                   returned |-> IndexSearch(store, namespace, query_ok)]
    /\ UNCHANGED <<rt_mapping, rt_request, rt_auto, rt_explicit>>
    /\ UNCHANGED not_sr

\* search_with_auto_route(query, school, class_name) for the request; the
\* fallback is _search_all_namespaces (lines 227-236)
SearchWithAutoRoute(embed_ok, query_ok) ==
    /\ sr_search = NoCall
    /\ LET namespace == route_query(rt_mapping, rt_request.query,
                                    ReplaceSpace(Lower(SchoolName)),
                                    ReplaceSpace(Lower(ClassName)))
           embedding == IF embed_ok THEN "ok" ELSE "failed"
           index == IF ~embed_ok THEN "none" ELSE IF query_ok THEN "ok" ELSE "failed"
       IN  sr_search' =
             IF namespace = PyNone
             THEN [mode |-> "auto", namespace |-> namespace, embedding |-> embedding,
                   queried |-> IF embed_ok THEN <<PyNone>> ELSE <<>>,
                   index |-> index,
                   returned |->
                       [subject |-> AllSubjects,
                        results |-> IF embed_ok THEN IndexSearch(store, PyNone, query_ok)
                                    ELSE {},
                        confidence |-> 0, mode |-> "fallback"]]
             ELSE IF ~embed_ok
             THEN [mode |-> "auto", namespace |-> namespace, embedding |-> embedding,
                   queried |-> <<>>, index |-> index,
                   returned |-> [subject |-> ErrorSubject, results |-> {},
                                 confidence |-> 0]]
             ELSE [mode |-> "auto", namespace |-> namespace, embedding |-> embedding,
                   queried |-> <<namespace>>, index |-> index,
                   returned |->
                       [subject |-> SubjectDisplay(namespace),
                        results |-> IndexSearch(store, namespace, query_ok),
                        confidence |-> 1, mode |-> "auto_route"]]
    /\ UNCHANGED <<rt_mapping, rt_request, rt_auto, rt_explicit>>
    /\ UNCHANGED not_sr

\* SubjectRouter() loads the mapping; the index is as earlier runs left it
SearchInit ==
    /\ rt_mapping \in SubjectMappings
    /\ rt_request \in Requests
    /\ rt_auto = NoCall /\ rt_explicit = NoCall /\ sr_search = NoCall
    /\ store \in SearchStores

SearchNext ==
    \/ RouteQuery
    \/ FindNamespace
    \/ \E embed_ok, query_ok \in BOOLEAN : SearchWithSubject(embed_ok, query_ok)
    \/ \E embed_ok, query_ok \in BOOLEAN : SearchWithAutoRoute(embed_ok, query_ok)

----------------------------------------------------------------------------
(* PineconeIndexManager.upsert_vectors on one list of vectors *)

\* no namespace keyword in the call of index.upsert (line 225)
NoKeyword == <<"absent">>

\* a bug: the slice stops one record short of the next batch
BatchShort(vectors, i, batch_size) ==
    Slice(vectors, i, IF batch_size > 1 THEN i + batch_size - 1 ELSE i + 1)

\* vectors[i:i + batch_size] (line 210)
Batch(vectors, i, batch_size) == Slice(vectors, i, i + batch_size)

\* the call of index.upsert of lines 222-225 for a batch: the namespace is
\* passed when it is truthy (neither None nor the empty string)
UpsertCall(batch, namespace) ==
    [vectors |-> batch,
     namespace |-> IF namespace # PyNone /\ namespace # <<>> THEN namespace
                   ELSE NoKeyword]

\* vector tuples (id, embedding, metadata); the embedding is the id's
VectorTuples == {[id |-> n, values |-> <<"emb", n>>, metadata |-> EmptyDict] : n \in 0..1}

VectorLists == UNION {[1..k -> VectorTuples] : k \in 0..MaxVectors}

UpsertInit ==
    /\ up_pc = "loop"
    /\ up_vectors \in VectorLists
    /\ up_batch_size \in 1..MaxBatchSize
    /\ up_namespace \in {PyNone, <<>>, <<"n">>}
    /\ up_i = 0
    /\ up_calls = <<>>

\* one pass of the loop of lines 209-229; a call of index.upsert that raises
\* makes upsert_vectors raise (lines 231-233)
UpCall(ok) ==
    /\ up_pc = "loop"
    /\ up_i < Len(up_vectors)
    /\ IF ok
       THEN /\ up_calls' = Append(up_calls,
                   UpsertCall(Batch(up_vectors, up_i, up_batch_size), up_namespace))
            /\ up_i' = up_i + up_batch_size
            /\ up_pc' = "loop"
       ELSE /\ up_pc' = "raised"
            /\ UNCHANGED <<up_calls, up_i>>
    /\ UNCHANGED <<up_vectors, up_batch_size, up_namespace>>
    /\ UNCHANGED not_up

\* range(0, len(vectors), batch_size) is exhausted: upsert_vectors returns
UpReturn ==
    /\ up_pc = "loop"
    /\ up_i >= Len(up_vectors)
    /\ up_pc' = "returned"
    /\ UNCHANGED <<up_vectors, up_batch_size, up_namespace, up_i, up_calls>>
    /\ UNCHANGED not_up

UpsertNext ==
    \/ \E ok \in BOOLEAN : UpCall(ok)
    \/ UpReturn

----------------------------------------------------------------------------
(* Specifications *)

\* the chunker variables, unused by this specification
ChunkIdle ==
    /\ ck_pc = "idle" /\ ck_text = <<>> /\ ck_size = CHUNK_SIZE
    /\ ck_overlap = CHUNK_OVERLAP /\ ck_arg0 = EmptyDict /\ ck_arg = EmptyDict
    /\ ck_first = <<>> /\ ck_second = <<>>

\* the namespace variables, unused by the other specifications
NsIdle ==
    /\ ns_pc = "idle" /\ ns_metadata = EmptyDict
    /\ ns_result = [raised |-> FALSE, value |-> PyNone]

\* chunk_text alone
\* the directory, the store and the pipeline, unused by the specifications
\* of the pure functions
PipelineIdle == dir = [k \in SeqRange(DirOrder) |-> NoDoc] /\ store = {} /\ PlIdle

\* the source tree, the manifest and the extractor, unused by the
\* specifications without extraction
ExtractIdle == ExtractInit

\* the router and the searches, unused by the other specifications
SearchIdle ==
    /\ rt_mapping = NoneDict
    /\ rt_request = [query |-> <<>>, subject |-> <<>>, school |-> SchoolNorm,
                     class |-> ClassNorm]
    /\ rt_auto = NoCall /\ rt_explicit = NoCall /\ sr_search = NoCall

\* the variables of the call of upsert_vectors, unused by the other
\* specifications
UpsertIdle ==
    /\ up_pc = "idle" /\ up_vectors = <<>> /\ up_batch_size = BATCH_SIZE
    /\ up_namespace = PyNone /\ up_i = 0 /\ up_calls = <<>>

SpecChunkInit ==
    ChunkInit /\ NsIdle /\ PipelineIdle /\ ExtractIdle /\ SearchIdle /\ UpsertIdle

SpecChunk == SpecChunkInit /\ [][ChunkNext]_vars

\* _calculate_namespace alone
SpecNsInit ==
    NsInit /\ ChunkIdle /\ PipelineIdle /\ ExtractIdle /\ SearchIdle /\ UpsertIdle

SpecNs == SpecNsInit /\ [][NsNext]_vars

\* process_pipeline run twice over an extracted_texts directory
SpecPipelineInit ==
    PipelineInit /\ ChunkIdle /\ NsIdle /\ ExtractIdle /\ SearchIdle /\ UpsertIdle

SpecPipeline == SpecPipelineInit /\ [][PipelineNext]_vars

\* extract_all run twice over a source tree that changes
SpecExtractInit ==
    ExtractInit /\ PipelineIdle /\ ChunkIdle /\ NsIdle /\ SearchIdle /\ UpsertIdle

SpecExtract == SpecExtractInit /\ [][ExtractNext]_vars

\* extract_all run twice over a source tree and a manifest file that change
ManifestNext ==
    \/ \E incremental, force \in BOOLEAN : ExStart(incremental, force)
    \/ ExRead
    \/ ExRecord
    \/ ExFinish
    \/ EnvSource
    \/ EnvManifest

SpecManifest == SpecExtractInit /\ [][ManifestNext]_vars

\* search.py: the router and the two searches on one request
SpecSearchInit ==
    /\ SearchInit
    /\ dir = [k \in SeqRange(DirOrder) |-> NoDoc] /\ PlIdle
    /\ ExtractIdle /\ ChunkIdle /\ NsIdle /\ UpsertIdle

SpecSearch == SpecSearchInit /\ [][SearchNext]_vars

\* the build: extract_pdfs and generate_embeddings, each run up to twice, one
\* program at a time, over a source tree that changes; the embedding service
\* answers every request (its failures are followed in SpecPipeline), an
\* upsert may fail
Init == ExtractInit /\ PipelineIdle /\ ChunkIdle /\ NsIdle /\ SearchIdle /\ UpsertIdle

\* upsert_vectors called once on a list of vectors
SpecUpsertInit ==
    UpsertInit /\ ChunkIdle /\ NsIdle /\ PipelineIdle /\ ExtractIdle /\ SearchIdle

SpecUpsert == SpecUpsertInit /\ [][UpsertNext]_vars

Next ==
    \/ \E incremental, force \in BOOLEAN : ExStart(incremental, force)
    \/ ExRead
    \/ ExRecord
    \/ ExFinish
    \/ EnvSource
    \/ PlStart
    \/ PlEmbed("ok")
    \/ PlGroup
    \/ \E ok \in BOOLEAN : PlUpsert(ok)
    \/ PlFinish

Spec == Init /\ [][Next]_vars

----------------------------------------------------------------------------
(* Properties of chunk_text *)

ck_step == ck_size - ck_overlap

\* the chunk lists returned so far
ck_returned ==
    IF ck_pc = "init" THEN {} ELSE IF ck_pc = "once" THEN {ck_first}
    ELSE {ck_first, ck_second}

\* the number of windows cut before offset o that failed the length test
DroppedBefore(o) ==
    Cardinality({k \in 0..Len(ck_text) :
        /\ k * ck_step < o
        /\ k * ck_step < Len(ck_text)
        /\ Len(Strip(SubSeq(ck_text, k * ck_step + 1,
                             Min({Len(ck_text), k * ck_step + ck_size})))) <= MinChunkLen})

NoSharedIndex(chunks) ==
    \A a, b \in 1..Len(chunks) :
        chunks[a].chunk_index = chunks[b].chunk_index => a = b

\* C7 as stated: the chunk with index i starts at offset i * (chunk_size -
\* overlap), and no two chunks of one document share an index.
C7_OffsetIsIndexTimesStep ==
    \A chunks \in ck_returned :
        /\ \A k \in 1..Len(chunks) :
               chunks[k].offset = chunks[k].chunk_index * ck_step
        /\ NoSharedIndex(chunks)

\* C7 amended: the chunk with index i is the text window starting at offset
\* (i + d) * (chunk_size - overlap), where d is the number of earlier windows
\* that were dropped (so at i * (chunk_size - overlap) exactly when no earlier
\* window was dropped), and no two chunks of one document share an index.
C7_OffsetIsWindowTimesStep ==
    \A chunks \in ck_returned :
        /\ \A k \in 1..Len(chunks) :
               LET c == chunks[k]
               IN  /\ c.offset = (c.chunk_index + DroppedBefore(c.offset)) * ck_step
                   /\ c.text = SubSeq(ck_text, c.offset + 1,
                                      Min({Len(ck_text), c.offset + ck_size}))
        /\ NoSharedIndex(chunks)

\* a chunk emitted after an earlier window was dropped, with an overlap in use
C7_Witness ==
    /\ ck_pc = "once"
    /\ ck_overlap > 0
    /\ \E k \in 1..Len(ck_first) :
          /\ DroppedBefore(ck_first[k].offset) > 0
          /\ ck_first[k].chunk_index > 0

\* C8: no emitted chunk has a trimmed length of 50 or less; the indices of
\* the emitted chunks are 0, 1, ..., n-1 in emission order; and the
\* chunk_index field of a chunk equals the chunk_index in its metadata.
C8_DenseIndicesAboveThreshold ==
    \A chunks \in ck_returned :
        \A k \in 1..Len(chunks) :
            /\ Len(Strip(chunks[k].text)) > 50
            /\ chunks[k].chunk_index = k - 1
            /\ chunks[k].metadata["chunk_index"] = chunks[k].chunk_index

\* a window was dropped between two emitted chunks
C8_Witness ==
    /\ ck_pc = "once"
    /\ \E k \in 2..Len(ck_first) :
          DroppedBefore(ck_first[k].offset) > DroppedBefore(ck_first[k - 1].offset)

----------------------------------------------------------------------------
(* Properties of _calculate_namespace *)

\* the field is absent, null or empty
NsFieldMissing(metadata, key) ==
    \/ key \notin DOMAIN metadata
    \/ metadata[key] = PyNone
    \/ metadata[key] = <<>>

NsIncomplete(metadata) ==
    \E key \in {"school", "class", "subject"} : NsFieldMissing(metadata, key)

\* C10: for metadata in which one of school, class, subject is absent, null
\* or empty, _calculate_namespace returns None and does not raise (no key is
\* built from only some of the fields).
C10_IncompleteGivesNone ==
    (ns_pc = "done" /\ NsIncomplete(ns_metadata)) =>
        (~ns_result.raised /\ ns_result.value = PyNone)

----------------------------------------------------------------------------
(* Properties of process_pipeline *)

\* the vectors of the run have been grouped
PlGrouped == pl_pc \in {"upsert", "done", "failed"}

\* the positions of the batch, 0-based
PlPositions == 0..(Len(pl_chunks) - 1)

PlFailedAt(i) == pl_returned[i + 1] = NoEmbedding

\* the record v carries the text and metadata of the chunk at position i
BelongsTo(v, i) ==
    /\ v.metadata = Merge([text |-> SubSeq(pl_chunks[i + 1].text, 1,
                                           Min({500, Len(pl_chunks[i + 1].text)}))],
                          pl_chunks[i + 1].metadata)

\* the record v names the document and chunk index of the chunk at position i
Names(v, i) ==
    /\ v.metadata["source_path"] = pl_chunks[i + 1].metadata["source_path"]
    /\ v.metadata["chunk_index"] = pl_chunks[i + 1].metadata["chunk_index"]

\* C1: every vector record pairs the vector the service returned for a
\* position i with the text and metadata of the chunk at position i; a
\* position whose embedding failed has no record; every other position has
\* exactly one.
C1_AlignedUnderFailure ==
    PlGrouped =>
        /\ \A n \in 1..Len(PlVectors) :
               \E i \in PlPositions :
                   /\ ~PlFailedAt(i)
                   /\ PlVectors[n].values = pl_returned[i + 1]
                   /\ BelongsTo(PlVectors[n], i)
        /\ \A i \in PlPositions :
               Cardinality({n \in 1..Len(PlVectors) : Names(PlVectors[n], i)})
                   = IF PlFailedAt(i) THEN 0 ELSE 1

\* the embeddings of two positions failed, one before and one between
\* positions that succeeded, and the run went on to upsert
C1_Witness ==
    /\ pl_pc = "done"
    /\ \E a, b, c, d \in PlPositions :
          /\ a < b /\ b < c /\ c < d
          /\ PlFailedAt(a) /\ ~PlFailedAt(b) /\ PlFailedAt(c) /\ ~PlFailedAt(d)
    /\ Len(PlVectors) >= 2

\* the ids of the records a run built for the chunks of a document
IdsOf(doc, vectors) ==
    {vectors[n].id : n \in {m \in 1..Len(vectors) :
         vectors[m].metadata["source_path"] = doc.metadata["source_path"]}}

\* two runs have ended with a summary and no embedding failed in either
TwoCleanRuns ==
    /\ pl_runs = 2
    /\ pl_pc = "done"
    /\ pl_prev.pc = "done"
    /\ \A n \in 1..Len(pl_returned) : pl_returned[n] # NoEmbedding
    /\ \A n \in 1..Len(pl_prev.returned) : pl_prev.returned[n] # NoEmbedding

\* C5: a document with the same text and metadata in two runs gets the same
\* set of record ids in both, whatever the other documents of the runs are.
C5_StableIds ==
    TwoCleanRuns =>
        \A doc \in SeqRange(pl_documents) \cap SeqRange(pl_prev.documents) :
            IdsOf(doc, PlVectors) = IdsOf(doc, pl_prev.vectors)

StoreKeys(index) == {<<r.ns, r.id>> : r \in index}

\* C6: two runs over the same documents, every embedding succeeding, leave
\* the store after the second run with the (namespace, id) pairs it had
\* after the first, one record per pair.
C6_RerunIdempotent ==
    (TwoCleanRuns /\ pl_documents = pl_prev.documents) =>
        /\ StoreKeys(store) = StoreKeys(pl_prev.store)
        /\ Cardinality(store) = Cardinality(StoreKeys(store))

\* two clean runs over the same documents, which filled two partitions
C6_Witness ==
    /\ TwoCleanRuns
    /\ pl_documents = pl_prev.documents
    /\ Cardinality(store) >= 3
    /\ Cardinality({r.ns : r \in store}) >= 2

----------------------------------------------------------------------------
(* Properties of the manifest *)

\* the true fingerprint of the bytes of a file, readable by this user or not
Fingerprint(file) == Md5Bytes(file.bytes)

\* C3, as stated: the answer is true when force is set, when the path is not
\* in the manifest or when the stored fingerprint differs from that of the
\* current bytes, and false with the reason "File unchanged" otherwise.
C3_AnswerAsStated ==
    ex_answer # NoAnswer =>
        LET a == ex_answer
            stale == \/ a.entry = NoEntry
                     \/ a.entry.source_hash # Fingerprint(a.file)
        IN  /\ a.answer[1] = (a.force \/ stale)
            /\ ~a.answer[1] => a.answer[2] = "File unchanged"

\* C3, amended: the answer is true when force is set; otherwise, when the
\* fingerprint of the file cannot be computed, it is false with the reason
\* "Failed to calculate file hash"; otherwise it is true when the path is not
\* in the manifest or when the stored fingerprint (null included) differs
\* from the current one, and false with the reason "File unchanged" when
\* they are equal.
C3_AnswerWhenFingerprintComputable ==
    ex_answer # NoAnswer =>
        LET a == ex_answer
            stale == \/ a.entry = NoEntry
                     \/ a.entry.source_hash # Fingerprint(a.file)
        IN  /\ a.answer[1] = (a.force \/ (a.file.readable /\ stale))
            /\ ~a.answer[1] =>
                  a.answer[2] = IF a.file.readable THEN "File unchanged"
                                ELSE "Failed to calculate file hash"

\* a path recorded with the fingerprint of its bytes, whose bytes then
\* changed, is asked about without force and answered true
C3_Witness ==
    /\ ex_answer # NoAnswer
    /\ ~ex_answer.force
    /\ ex_answer.entry # NoEntry
    /\ ex_answer.entry.source_hash # PyNone
    /\ ex_answer.entry.source_hash # Fingerprint(ex_answer.file)
    /\ ex_answer.file.readable
    /\ ex_answer.answer[1]

\* the manifest on disk has an entry for the path with the fingerprint of
\* the current bytes
TrackedCurrent(parts) ==
    /\ manifest_disk[parts] # NoEntry
    /\ manifest_disk[parts].source_hash = Fingerprint(src[parts])

\* the records of the store for the document of a path
StoredOf(index, parts) ==
    {r \in index : r.metadata["source_path"] = JoinPath(parts)}

\* every chunk of the extracted document of the path has a record in the store
AllChunksStored(parts) ==
    /\ dir[parts] # NoDoc
    /\ LET chunks == ChunkAll(<<dir[parts]>>)
       IN  \A n \in 1..Len(chunks) :
               \E r \in StoredOf(store, parts) :
                   r.metadata["chunk_index"] = chunks[n].metadata["chunk_index"]

SubmittedOf(parts) ==
    {n \in 1..Len(pl_chunks) : pl_chunks[n].metadata["source_path"] = JoinPath(parts)}

PlRunning == pl_pc \in {"embed", "group", "upsert"}

SeenUnchanged(parts) ==
    /\ ex_seen.tree[parts].readable
    /\ ex_seen.files[parts] # NoEntry
    /\ ex_seen.files[parts].source_hash = Fingerprint(ex_seen.tree[parts])

----------------------------------------------------------------------------
(* Properties of the upsert batches *)

\* the namespace of a chunk as documented: the three fields lowercased, with
\* spaces as underscores, joined by '_'; none when a field is absent, null
\* or empty
ExpectedNamespace(metadata) ==
    IF NsIncomplete(metadata) THEN PyNone
    ELSE JoinNamespace(ReplaceSpace(Lower(metadata["school"])),
                       ReplaceSpace(Lower(metadata["class"])),
                       ReplaceSpace(Lower(metadata["subject"])))

\* the places <<call, n>> of the upsert plan whose record names position i
PlacesOf(i) ==
    {pl \in UNION {{<<g, n>> : n \in 1..Len(PlPlan[g].vectors)} : g \in 1..Len(PlPlan)} :
        Names(PlPlan[pl[1]].vectors[pl[2]], i)}

\* the embedding loop of the run has ended
PlEmbedded == pl_pc \in {"upsert", "done", "failed", "crashed"}

\* C11: once the embeddings are back, every position whose embedding
\* succeeded has its record in exactly one upsert batch, the batch of the
\* namespace of its own chunk, or the default batch (namespace None) when
\* that namespace is none.
C11_OneBatchByOwnNamespace ==
    PlEmbedded =>
        \A i \in PlPositions :
            ~PlFailedAt(i) =>
                /\ Cardinality(PlacesOf(i)) = 1
                /\ \A pl \in PlacesOf(i) :
                       PlPlan[pl[1]].namespace = ExpectedNamespace(pl_chunks[i + 1].metadata)

\* the same for the runs that do not end in _calculate_namespace
C11_OneBatchWhenGrouped ==
    PlGrouped =>
        \A i \in PlPositions :
            ~PlFailedAt(i) =>
                /\ Cardinality(PlacesOf(i)) = 1
                /\ \A pl \in PlacesOf(i) :
                       PlPlan[pl[1]].namespace = ExpectedNamespace(pl_chunks[i + 1].metadata)

----------------------------------------------------------------------------
(* Properties of the router *)

\* the subjects of the loaded mapping, none when no mapping is loaded
RtSubjects == IF Truthy(rt_mapping) THEN GetSubjects(rt_mapping) ELSE <<>>

\* the number of keywords of subject n that occur in the query, case ignored
RtScore(n) ==
    LET keywords == GetKeywords(RtSubjects[n])
    IN  Cardinality({k \in 1..Len(keywords) :
            \E i \in 1..(Len(rt_request.query) + 1) : \E j \in (i - 1)..Len(rt_request.query) :
                Lower(SubSeq(rt_request.query, i, j)) = Lower(keywords[k])})

\* the subjects with the greatest score, if it is above zero
RtWinners ==
    {n \in 1..Len(RtSubjects) :
        RtScore(n) > 0 /\ \A m \in 1..Len(RtSubjects) : RtScore(m) <= RtScore(n)}

\* the partition key of a subject: its override, or else its normalized
\* canonical name
PartitionKey(subject_config) ==
    IF "namespace" \in DOMAIN subject_config THEN subject_config["namespace"]
    ELSE ReplaceSpace(Lower(subject_config["primary"]))

\* C12: route_query returns the namespace of the subject with the greatest
\* keyword score, the first one in configuration order on a tie, and None
\* when no subject scores above zero.
C12_AutoRouteBestScore ==
    rt_auto # NoCall =>
        IF RtWinners = {} THEN rt_auto.result = PyNone
        ELSE rt_auto.result =
                 JoinNamespace(rt_request.school, rt_request.class,
                               PartitionKey(RtSubjects[Min(RtWinners)]))

\* two subjects tie with a score above zero and the first is returned
C12_Witness ==
    /\ rt_auto # NoCall
    /\ Cardinality(RtWinners) = 2
    /\ PartitionKey(RtSubjects[1]) # PartitionKey(RtSubjects[2])
    /\ rt_auto.result # PyNone

\* the subjects whose canonical name or one of whose aliases is the name
\* asked for, case ignored
RtNamed ==
    {n \in 1..Len(RtSubjects) :
        \/ Lower(RtSubjects[n]["primary"]) = Lower(rt_request.subject)
        \/ \E a \in SeqRange(GetAliases(RtSubjects[n])) : Lower(a) = Lower(rt_request.subject)}

\* C13: find_namespace returns a namespace exactly when some subject has
\* the name asked for as canonical name or alias, case ignored; the first
\* such subject is used (its override, when it has one, is the last part of
\* the namespace); it returns None otherwise.
C13_ExplicitMatch ==
    rt_explicit # NoCall =>
        /\ (rt_explicit.result # PyNone) = (RtNamed # {})
        /\ (RtNamed # {} /\ "namespace" \in DOMAIN RtSubjects[Min(RtNamed)]) =>
              rt_explicit.result =
                  JoinNamespace(rt_request.school, rt_request.class,
                                RtSubjects[Min(RtNamed)]["namespace"])
        /\ (RtNamed # {} /\ "namespace" \notin DOMAIN RtSubjects[Min(RtNamed)]) =>
              rt_explicit.result =
                  JoinNamespace(rt_request.school, rt_request.class,
                                ReplaceSpace(Lower(rt_request.subject)))

\* the name asked for is an alias, in another case, of the second subject
\* only, which has an override
C13_Witness ==
    /\ rt_explicit # NoCall
    /\ RtNamed = {2}
    /\ rt_request.subject # RtSubjects[2]["primary"]
    /\ rt_request.subject \notin SeqRange(GetAliases(RtSubjects[2]))
    /\ "namespace" \in DOMAIN RtSubjects[2]
    /\ rt_explicit.result # PyNone

\* C14: when the name asked for resolves to the subject that auto mode
\* selects, the two modes return the same namespace.
C14_ModesAgree ==
    (rt_auto # NoCall /\ rt_explicit # NoCall /\ RtWinners # {} /\ RtNamed # {}
        /\ Min(RtWinners) = Min(RtNamed))
        => rt_auto.result = rt_explicit.result

----------------------------------------------------------------------------
(* Properties of the searches *)

\* the router found no namespace for the request of the search
SrMiss == sr_search # NoCall /\ sr_search.namespace = PyNone

\* the records of the default partition
DefaultMatches == {r \in store : r.ns = DefaultNamespace}

\* the list of matches the search returned
SrResults ==
    IF sr_search.mode = "auto" THEN sr_search.returned["results"] ELSE sr_search.returned

\* C15, as stated: on a routing miss, in either mode, the search is run
\* against the default partition and its matches are returned (when the
\* embedding service and the index answer).
C15_MissFallsBackInBothModes ==
    (SrMiss /\ sr_search.embedding # "failed" /\ sr_search.index # "failed") =>
        /\ sr_search.queried = <<PyNone>>
        /\ SrResults = DefaultMatches

\* C15, amended: on a routing miss auto mode embeds the query and, when the
\* embedding succeeds, queries the default partition once and returns its
\* matches (none when the query raises) in a result of mode "fallback"; when
\* the embedding fails it returns no match and queries nothing.  Explicit
\* mode on a miss returns an empty list: it neither embeds nor queries.
C15_MissFallsBackInAutoMode ==
    SrMiss =>
        IF sr_search.mode = "auto"
        THEN /\ sr_search.embedding # "none"
             /\ sr_search.returned["mode"] = "fallback"
             /\ sr_search.embedding = "ok" =>
                   /\ sr_search.queried = <<PyNone>>
                   /\ SrResults = IF sr_search.index = "ok" THEN DefaultMatches ELSE {}
             /\ sr_search.embedding = "failed" =>
                   sr_search.queried = <<>> /\ SrResults = {}
        ELSE /\ sr_search.embedding = "none"
             /\ sr_search.queried = <<>>
             /\ sr_search.returned = {}

\* no mapping is loaded, the other partitions hold records, and the auto
\* search returned the records of the default partition
C15_Witness ==
    /\ SrMiss /\ sr_search.mode = "auto"
    /\ rt_mapping = NoneDict
    /\ sr_search.index = "ok"
    /\ SrResults # {}
    /\ SrResults # store

----------------------------------------------------------------------------
(* Properties of the failures of a run of the pipeline *)

\* an upsert call fails in this step
UpsertFails == pl_pc = "upsert" /\ pl_faults' = pl_faults + 1

\* C16: the step in which an upsert call fails writes nothing and ends the
\* run in failure; from then on, until another run is started, the run makes
\* no upsert call (the store and the upsert counters stay as they are),
\* returns no summary and leaves the manifest, on disk and in memory, as it
\* is.
C16_UpsertFailureFatal ==
    [][((UpsertFails \/ pl_pc = "failed") /\ pl_runs' = pl_runs) =>
          /\ pl_pc' = "failed"
          /\ pl_summary' = NoSummary
          /\ UNCHANGED <<store, pl_g, pl_off, pl_stored, pl_created>>
          /\ UNCHANGED <<manifest_disk, ex_manifest>>]_vars

\* an upsert call failed after the batch of one namespace was stored and
\* while the batch of another was still to be sent
C16_Witness ==
    /\ pl_pc = "failed" /\ pl_runs = 1
    /\ store # {}
    /\ pl_g < Len(PlPlan)

\* the number of positions of the batch whose embedding call failed
FailedChunks == Cardinality({i \in PlPositions : PlFailedAt(i)})

\* the entries of the summary that are counts (lines 422-430)
SummaryCounts ==
    {"documents_processed", "chunks_created", "embeddings_generated",
     "vectors_stored", "vectors_in_default", "cloudflare_requests"}

\* C17 (embedding failures are not fatal): a failed embedding call is followed
\* by the calls for every later position, and the run goes on to group and
\* upsert the positions that succeeded.
C17_FailureNotFatal ==
    [][(pl_pc = "embed" /\ pl_faults' = pl_faults + 1) =>
          /\ pl_i' = pl_i + 1
          /\ pl_pc' = IF pl_i' = Len(pl_chunks) THEN "group" ELSE "embed"
          /\ Len(pl_returned') = pl_i']_vars

\* C17: a failed embedding call does not end the run, the failed chunk is in
\* no upsert batch, and the summary the run returns has a count that is the
\* number of chunks whose embedding failed.
C17_FailedChunksReported ==
    /\ pl_pc \in {"embed", "group"} => Len(pl_returned) = pl_i
    /\ PlGrouped =>
          \A i \in PlPositions :
              PlFailedAt(i) => \A n \in 1..Len(PlVectors) : ~Names(PlVectors[n], i)
    /\ (pl_pc = "done" /\ FailedChunks > 0) =>
          \E k \in SummaryCounts : pl_summary[k] = FailedChunks

----------------------------------------------------------------------------
(* Properties of the failures of a run of extract_all *)

\* the files the run in progress selected for processing (lines 254-272)
ExSelected ==
    FilterFiles(PdfPaths, ex_seen.files, ex_seen.tree, ex_incremental, ex_force).process

\* the loop of extract_all takes a step on a file whose extraction fails
ExtractionFails ==
    /\ ex_pc = "loop" /\ ex_todo # <<>>
    /\ ~Extractable(src[Head(ex_todo)])
    /\ <<ex_todo, ex_failed, ex_successful, ex_manifest, ex_cur, ex_pc>>' #
           <<ex_todo, ex_failed, ex_successful, ex_manifest, ex_cur, ex_pc>>

\* C18: the step of extract_all on a document whose extraction fails adds
\* one to the failed count and nothing to the successful count, leaves the
\* files map of the manifest (in memory and on disk) and the directory of
\* extractions as they are, and goes on with the remaining documents; a run
\* that has ended has counted every document it selected as successful or
\* failed.
C18_ExtractionFailurePerDocument ==
    /\ [][ExtractionFails =>
            /\ ex_failed' = ex_failed + 1
            /\ ex_successful' = ex_successful
            /\ ex_manifest' = ex_manifest
            /\ manifest_disk' = manifest_disk
            /\ dir' = dir
            /\ ex_todo' = Tail(ex_todo)
            /\ ex_pc' = "loop"]_vars
    /\ [](ex_pc = "done" => ex_successful + ex_failed = Len(ExSelected))

\* a run has ended in which the extraction of a document that had a manifest
\* entry failed, the entry is as it was, and a document that comes later in
\* the run was extracted
C18_Witness ==
    /\ ex_pc = "done"
    /\ ex_failed = 1
    /\ \E i, j \in 1..Len(ExSelected) :
          /\ i < j
          /\ ExSelected[i] \notin ex_done
          /\ ExSelected[j] \in ex_done
          /\ ex_seen.files[ExSelected[i]] # NoEntry
          /\ ex_manifest[ExSelected[i]] = ex_seen.files[ExSelected[i]]
          /\ manifest_disk[ExSelected[i]] = ex_seen.files[ExSelected[i]]

\* an incremental run is in progress or has ended
ExIncremental == ex_pc # "idle" /\ ex_incremental /\ ~ex_force

\* the documents whose fingerprint the filter of the run could not compute
ExNoFingerprint ==
    {p \in SeqRange(PdfPaths) : calculate_file_hash(ex_seen.tree[p]) = PyNone}

\* the documents the filter of the run found unchanged
ExUnchanged ==
    {p \in SeqRange(PdfPaths) :
        /\ calculate_file_hash(ex_seen.tree[p]) # PyNone
        /\ ex_seen.files[p] # NoEntry
        /\ ex_seen.files[p].source_hash = calculate_file_hash(ex_seen.tree[p])}

\* C19 (exclusion): in an incremental run a document whose fingerprint
\* cannot be computed is not processed and its manifest entry stays as it
\* was.
C19_FingerprintFailureExcluded ==
    ExIncremental =>
        \A p \in ExNoFingerprint :
            /\ p \notin ex_done
            /\ \A n \in 1..Len(ex_todo) : ex_todo[n] # p
            /\ ex_manifest[p] = ex_seen.files[p]
            /\ manifest_disk[p] = ex_seen.files[p]

\* C19: in an incremental run a document whose fingerprint cannot be
\* computed is not processed, its manifest entry stays as it was, and it is
\* not counted among the documents the run reports as skipped unchanged.
C19_FingerprintFailureReported ==
    /\ C19_FingerprintFailureExcluded
    /\ ExIncremental => SkippingUnchanged(ex_skipped) = Cardinality(ExUnchanged)

----------------------------------------------------------------------------
(* Properties of the fingerprints in the manifest *)

\* C20: the source fingerprint of a manifest entry is the fingerprint of the
\* bytes from which the extraction stored for the document was produced, in
\* every state but those between the write of the extraction and the record
\* of its entry, whatever the environment does to the source files.
C20_FingerprintOfExtractedBytes ==
    \A parts \in SeqRange(PdfPaths) :
        (ex_manifest[parts] # NoEntry /\ ~(ex_pc = "record" /\ Head(ex_todo) = parts)) =>
            \E version \in 1..MaxVersion :
                /\ ex_manifest[parts].source_hash = Md5Bytes(version)
                /\ dir[parts] = extract_text_from_pdf(parts, version)

----------------------------------------------------------------------------
(* Properties of upsert_vectors *)

\* the records of the calls made so far, in call order
RECURSIVE RecordsOf(_)
RecordsOf(calls) ==
    IF calls = <<>> THEN <<>> ELSE Head(calls).vectors \o RecordsOf(Tail(calls))

\* the partition a namespace argument stands for: None and '' are the default
PartitionOf(namespace) ==
    IF namespace = PyNone \/ namespace = NoKeyword THEN DefaultNamespace ELSE namespace

\* C21: every call of index.upsert carries at least one and at most
\* batch_size records and goes to the partition of the given namespace; the
\* records of the calls made so far, in call order, are the first records of
\* the input list, and all of the list when upsert_vectors has returned.
C21_BoundedBatches ==
    up_pc # "idle" =>
        /\ \A n \in 1..Len(up_calls) :
              /\ Len(up_calls[n].vectors) \in 1..up_batch_size
              /\ PartitionOf(up_calls[n].namespace) = PartitionOf(up_namespace)
        /\ RecordsOf(up_calls) = SubSeq(up_vectors, 1, Min({up_i, Len(up_vectors)}))
        /\ up_pc = "returned" => RecordsOf(up_calls) = up_vectors

\* upsert_vectors has returned after two calls, the last one with fewer
\* records than the batch size, for a list that repeats a record
C21_Witness ==
    /\ up_pc = "returned"
    /\ Len(up_calls) = 2
    /\ up_batch_size = 3
    /\ Len(up_calls[2].vectors) = 1
    /\ up_vectors[1] = up_vectors[4]
    /\ up_namespace = <<"n">>

----------------------------------------------------------------------------
(* Properties of the summary of extract_all *)

\* summary.get('skipped', 0), as main reads the count of skipped files
SummarySkipped(summary) ==
    IF "skipped" \in DOMAIN summary THEN summary.skipped ELSE 0

\* C22: the summary of a run of extract_all that skipped documents has a
\* count of them, and in the summary of every run total_files is the sum of
\* the successful, failed and skipped counts.
C22_SummaryCountsSkipped ==
    ex_pc = "done" =>
        /\ ex_skipped # <<>> => "skipped" \in DOMAIN ex_summary
        /\ ex_summary.total_files =
              ex_summary.successful + ex_summary.failed + SummarySkipped(ex_summary)

----------------------------------------------------------------------------
(* Properties of the manifest across runs *)

\* a run of extract_all saves the manifest in this step (line 337)
ManifestSaved == ex_pc = "loop" /\ ex_pc' = "done"

\* the manifest saved in this step keeps every entry of the manifest saved
\* before it, and differs from it only at documents the run extracted
KeepsEntries ==
    \A parts \in SeqRange(PdfPaths) :
        /\ manifest_disk[parts] # NoEntry => manifest_disk'[parts] # NoEntry
        /\ manifest_disk'[parts] # manifest_disk[parts] => parts \in ex_done

\* C23: every manifest a run saves has an entry for every path that had one
\* in the manifest saved before it, and differs from that manifest only at
\* documents the run processed successfully.
C23_AppendOnly == [][ManifestSaved => KeepsEntries]_vars

\* C23, amended: the same for every run that could read and parse the
\* manifest file when it started; a run that could not starts from a new
\* manifest and the manifest it saves has entries only for the documents it
\* extracted itself.
C23_AppendOnlyWhenLoaded ==
    [][ManifestSaved =>
          IF ex_seen.loaded THEN KeepsEntries
          ELSE \A parts \in SeqRange(PdfPaths) :
                  manifest_disk'[parts] # NoEntry <=> parts \in ex_done]_vars

\* a second run has saved the manifest: it had loaded an entry for a document
\* it did not extract, which is kept as it was, and an entry for a document it
\* extracted again, which is overwritten
C23_Witness ==
    /\ ex_pc = "done" /\ ex_runs = 2 /\ ex_seen.loaded
    /\ \E p, q \in SeqRange(PdfPaths) :
          /\ ex_seen.files[p] # NoEntry /\ p \notin ex_done
          /\ manifest_disk[p] = ex_seen.files[p]
          /\ ex_seen.files[q] # NoEntry /\ q \in ex_done
          /\ manifest_disk[q] # ex_seen.files[q]

----------------------------------------------------------------------------
(* Properties of the namespaces as partitions *)

\* the hierarchy tuple of complete metadata, normalized
NsTuple(metadata) ==
    <<ReplaceSpace(Lower(metadata["school"])), ReplaceSpace(Lower(metadata["class"])),
      ReplaceSpace(Lower(metadata["subject"]))>>

\* C24: metadata whose complete (school, class, subject) tuple differs, after
\* normalization, from that of the metadata given is not assigned the
\* namespace the metadata given is assigned.
C24_NamespaceIsolation ==
    (ns_pc = "done" /\ ~NsIncomplete(ns_metadata)) =>
        \A other \in NsMetadatas :
            (~NsIncomplete(other) /\ NsTuple(other) # NsTuple(ns_metadata)) =>
                calculate_namespace(other).value # ns_result.value

----------------------------------------------------------------------------
(* Properties of the searches against what process_pipeline stored *)

\* the records stored for documents of the hierarchy and subject the request
\* of the search names
StoredForRequest ==
    {r \in store :
        /\ r.metadata["school"] = SchoolName
        /\ r.metadata["class"] = ClassName
        /\ r.metadata["subject"] = rt_request.subject}

\* C25: when the subject name of an explicit search is the canonical name or
\* an alias of a configured subject, the search resolves to the namespace of
\* every record stored for a document of that school, class and subject.
C25_RoutedBackToWritten ==
    (sr_search # NoCall /\ sr_search.mode = "explicit" /\ RtNamed # {}) =>
        \A r \in StoredForRequest : sr_search.namespace = r.ns

----------------------------------------------------------------------------
(* Properties of the throttling of a run of the pipeline *)

\* the places of the trace where a call is directly followed by another call
\* of the same service
Unthrottled ==
    {k \in 1..(Len(pl_trace) - 1) :
        pl_trace[k] \in {"embed", "upsert"} /\ pl_trace[k + 1] = pl_trace[k]}

\* C26 (after a call that succeeded): two calls of the same service with no
\* sleep between them are two calls of the embedding service of which the
\* first failed; an upsert call is never directly followed by another.
C26_ThrottleAfterSuccess ==
    \A k \in Unthrottled :
        /\ pl_trace[k] = "embed"
        /\ \E i \in PlPositions :
              /\ i < Len(pl_returned) /\ PlFailedAt(i)
              /\ k = i + 1 + Cardinality({j \in 0..(i - 1) : ~PlFailedAt(j)})

\* C26: in the trace of a run, between two consecutive calls of the
\* embedding service and between two consecutive upsert calls there is a
\* sleep, whether the earlier call succeeded or failed.
C26_ThrottleBetweenCalls == Unthrottled = {}

----------------------------------------------------------------------------
(* Properties of the coverage of a text by its chunks *)

\* the character at position p (1-based) lies in the span of a chunk of the
\* first call
CkCovered(p) ==
    \E n \in 1..Len(ck_first) :
        ck_first[n].offset < p /\ p <= ck_first[n].offset + Len(ck_first[n].text)

\* the windows of the text: window k starts at offset k * (chunk_size - overlap)
CkWindows ==
    IF ck_text = <<>> THEN {} ELSE 0..((Len(ck_text) - 1) \div (ck_size - ck_overlap))

\* the positions (1-based) of the characters window k holds
CkWindowSpan(k) ==
    LET i == k * (ck_size - ck_overlap)
    IN  (i + 1)..Min({i + ck_size, Len(ck_text)})

\* the positions of the characters that lie in the span of an emitted chunk
CkCoveredSet ==
    UNION {(ck_first[n].offset + 1)..(ck_first[n].offset + Len(ck_first[n].text)) :
              n \in 1..Len(ck_first)}

\* window k, without the whitespace at its ends, is longer than the threshold
CkWindowLong(k) ==
    LET i == k * (ck_size - ck_overlap)
    IN  Len(Strip(SubSeq(ck_text, i + 1, Min({i + ck_size, Len(ck_text)})))) > MinChunkLen

\* C27: every character of the text that is not whitespace lies in the span
\* of at least one chunk chunk_text emitted.
C27_NoContentLost ==
    ck_pc # "init" =>
        \A p \in 1..Len(ck_text) : ~IsSpace(ck_text[p]) => CkCovered(p)

\* C27, amended: every character of the text lies in at least one window,
\* and it lies in the span of an emitted chunk exactly when one of the
\* windows that hold it is longer than the threshold once trimmed; the
\* characters held only by windows the length test drops are in no chunk.
C27_CoveredUnlessDropped ==
    ck_pc # "init" =>
        /\ UNION {CkWindowSpan(k) : k \in CkWindows} = 1..Len(ck_text)
        /\ CkCoveredSet = UNION {CkWindowSpan(k) : k \in {j \in CkWindows : CkWindowLong(j)}}

\* a text chunked with an overlap: a character that is not whitespace is in no
\* chunk, another one is in two chunks
C27_Witness ==
    /\ ck_pc = "once" /\ ck_overlap > 0
    /\ \E p \in 1..Len(ck_text) : ~IsSpace(ck_text[p]) /\ ~CkCovered(p)
    /\ \E p \in 1..Len(ck_text) :
          \E n, m \in 1..Len(ck_first) :
              /\ n # m
              /\ ck_first[n].offset < p /\ p <= ck_first[n].offset + Len(ck_first[n].text)
              /\ ck_first[m].offset < p /\ p <= ck_first[m].offset + Len(ck_first[m].text)

----------------------------------------------------------------------------
(* Properties of the entries of the manifest *)

\* C28: every entry of the manifest, in memory and on disk, has a source
\* fingerprint that is not None.
C28_SourceHashNotNone ==
    \A parts \in SeqRange(PdfPaths) :
        /\ ex_manifest[parts] # NoEntry => ex_manifest[parts].source_hash # PyNone
        /\ manifest_disk[parts] # NoEntry => manifest_disk[parts].source_hash # PyNone

----------------------------------------------------------------------------
(* Properties of the result of search_with_auto_route *)

\* an auto-route search was made and the router matched a subject
SrRouted ==
    sr_search # NoCall /\ sr_search.mode = "auto" /\ sr_search.namespace # PyNone

\* C29: the subject of the result of an auto-route search that matched a
\* subject and embedded the query is made of the words of the partition key
\* of the routed subject, and of nothing else.
C29_SubjectNamesRoutedSubject ==
    (SrRouted /\ sr_search.embedding = "ok") =>
        sr_search.returned.subject =
            Title(JoinSpaces(SplitOn(PartitionKey(RtSubjects[Min(RtWinners)]), "_")))

\* C30: the result of every auto-route search has the fields subject,
\* results, confidence and mode.
C30_ResultHasFields ==
    (sr_search # NoCall /\ sr_search.mode = "auto") =>
        {"subject", "results", "confidence", "mode"} \subseteq DOMAIN sr_search.returned

====
